---- MODULE Spec2Model ----
(***************************************************************************)
(* Trade-stream ingestion pipeline of bitpulse.market_data_aggregator:     *)
(* the reconnecting WebSocket supervisor (connect), the per-frame window   *)
(* aggregator (handle_message), the window flush (process_and_store_data)  *)
(* and the shutdown path (main / close), for the Binance and the KuCoin    *)
(* client.                                                                 *)
(*                                                                         *)
(* Numbers: prices, quantities and values are integers (the code uses      *)
(* floats): a price is in whole units of the quote currency, a quantity    *)
(* in 1/QuantityUnit of the base asset, so a value (price * quantity) is   *)
(* in 1/QuantityUnit of the quote currency.  An average price is kept as   *)
(* the pair <<value, quantity>> of the division the code performs.         *)
(* Datetimes are integers: an event time is in microseconds since the      *)
(* epoch, an interval start in seconds.  The clock the processor reads is  *)
(* the pair <<seconds, microsecond>> of a datetime.                        *)
(***************************************************************************)
EXTENDS Integers, Sequences, FiniteSets, TLC

VARIABLES
    exchange,          \* which client runs: "binance" or "kucoin"
    pc,                \* position of main/connect
    retry_count,       \* local of connect()
    retry_delay,       \* local of connect()
    current_interval,  \* self.current_interval: <<>> is None, <<s>> second s
    transactions,      \* self.transactions: <<>> is {}, else pair -> side -> list
    big_transactions,  \* self.big_transactions, same shape
    stats_sink,        \* documents inserted into stats_collection, in order
    prices_sink,       \* documents inserted into prices_collection (Binance)
    big_sink,          \* documents inserted into big_transactions_collection
    coingecko_data,    \* the updates made on coingecko_data (Binance), in order
    interval_seconds,  \* self.interval_seconds
    sink_log,          \* the calls made on the sink, in order
    exit_cause,        \* why connect() stopped
    main_outcome,      \* how main() ended
    history,           \* ghost: trades accumulated so far, with the window each went to
    attempts,          \* ghost: connection attempts made
    fails,             \* ghost: failed attempts since the last streaming entry
    slept,             \* ghost: seconds slept in backoff since the last streaming entry
    sleeps,            \* ghost: backoff sleeps since the last streaming entry
    entries,           \* ghost: number of entries into the streaming loop
    last_event,        \* ghost: what the last step of the pipeline was
    pending,           \* the flush a task is suspended in: <<>>, or one record with the
                       \* sink's fault, the number of writes answered and, in the
                       \* handler, the frame
    interrupted,       \* ghost: a flush was cut short by a cancellation
    book_pc,           \* position of OrderBookManager.manage_order_book
    book_cause,        \* the exception that ended manage_order_book, "none" while it runs
    last_update_id,    \* local of manage_order_book
    first_update,      \* local of manage_order_book
    db_task,           \* local of manage_order_book: "unbound", "running" or "cancelled"
    order_book,        \* self.order_book: the snapshot loaded, the updates applied to it
                       \* and the updates of which only the first levels were written
    received,          \* ghost: the updates received since the last snapshot, in order
    fetches,           \* ghost: snapshot fetches made
    proc_pc,           \* position of TradingDataProcessor.process_upload_and_cleanup
    mongo_collection,  \* the documents of the MongoDB collection
    inserted,          \* ghost: documents ever inserted, the source of _id
    now,               \* datetime.utcnow() read by get_documents_older_than_24h
    fetched_documents, \* local of process_upload_and_cleanup: documents
    hourly_groups,     \* local of process_upload_and_cleanup, in dict order
    failed_uploads,    \* local of process_upload_and_cleanup
    bucket,            \* the objects put into the S3 bucket, in order
    deleted,           \* ghost: the _id of every document deleted by the run
    all_deleted        \* local of process_upload_and_cleanup: answer of verify_deletion

vars == <<exchange, pc, retry_count, retry_delay, current_interval, transactions,
          big_transactions, stats_sink, prices_sink, big_sink, coingecko_data, exit_cause, main_outcome,
          history, attempts, fails, slept, sleeps, entries, interval_seconds, sink_log,
          last_event, pending, interrupted, book_pc, book_cause, last_update_id, first_update, db_task,
          order_book, received, fetches, proc_pc, mongo_collection, inserted, now,
          fetched_documents,
          hourly_groups, failed_uploads, bucket, deleted, all_deleted>>

supVars == <<retry_count, retry_delay, exit_cause, attempts, fails, slept, sleeps, entries>>
aggVars == <<current_interval, transactions, big_transactions, stats_sink, prices_sink,
             big_sink, coingecko_data, history, sink_log>>

\* the state of the trade pipeline, of the order book manager and of the processor
pipelineVars == <<exchange, pc, retry_count, retry_delay, current_interval, transactions,
                  big_transactions, stats_sink, prices_sink, big_sink, coingecko_data, exit_cause,
                  main_outcome, history, attempts, fails, slept, sleeps, entries,
                  interval_seconds, sink_log, last_event, pending, interrupted>>
bookVars == <<book_pc, book_cause, last_update_id, first_update, db_task, order_book, received,
              fetches>>
procVars == <<proc_pc, mongo_collection, inserted, now, fetched_documents, hourly_groups,
              failed_uploads, bucket, deleted, all_deleted>>

\* OrderBookManager after __init__: manage_order_book is about to call initialize
InitManager ==
    /\ book_pc = "initialize"
    /\ book_cause = "none"
    /\ last_update_id = 0
    /\ first_update = TRUE
    /\ db_task = "unbound"
    /\ order_book = [snapshot |-> 0, updates |-> <<>>, partial |-> <<>>]
    /\ received = <<>>
    /\ fetches = 0

\* TradingDataProcessor after __init__, on an empty collection and an empty bucket
InitProcessor ==
    /\ proc_pc = "start"
    /\ mongo_collection = {}
    /\ inserted = 0
    /\ now = <<0, 0>>
    /\ fetched_documents = <<>>
    /\ hourly_groups = <<>>
    /\ failed_uploads = <<>>
    /\ bucket = <<>>
    /\ deleted = {}
    /\ all_deleted = FALSE

----------------------------------------------------------------------------
(* Bounds of the model *)
MaxTrades == 2
MaxAttempts == 11

(* Program constants *)
max_retries == 10
initial_retry_delay == 5
max_retry_delay == 60
BIG_TRANSACTION_THRESHOLD == 10000

\* a quantity q of the model is the quantity q / QuantityUnit of the code
QuantityUnit == 100

Exchanges == {"binance", "kucoin"}
SideSet == {"buy", "sell"}

\* a text whose letters are looked at one by one is the sequence of its characters
BuyText == <<"b", "u", "y">>

\* the subscribed pairs, in list order
Pairs(ex) == IF ex = "binance" THEN <<"BTCUSDT", "ETHUSDT">> ELSE <<"BTC-USDT", "ETH-USDT">>
PairSet(ex) == {Pairs(ex)[i] : i \in 1..Len(Pairs(ex))}

Min(a, b) == IF a <= b THEN a ELSE b
Max(a, b) == IF a >= b THEN a ELSE b

----------------------------------------------------------------------------
(* Frames the exchanges deliver *)
\* <<price, quantity>>: a zero quantity, a value equal to the threshold (5000 * 2.00),
\* a value below it (6000 * 1.00)
PriceQty == {<<5000, 0>>, <<5000, 200>>, <<6000, 100>>}
BinanceTimes == {999, 1000, 2000}                      \* T, milliseconds
KucoinTimes == {999999499, 1000000000, 2000000000}     \* time, nanoseconds

BinanceFrames ==
    {[e |-> "trade", s |-> s, p |-> pq[1], q |-> pq[2], T |-> t, m |-> m] :
        s \in PairSet("binance"), pq \in PriceQty, t \in BinanceTimes, m \in BOOLEAN}

\* the side of a KuCoin trade as KuCoin spells it and, for one trade, with a
\* capital letter
KucoinFrames ==
    {[type |-> "message", subject |-> "trade.l3match",
      data |-> [symbol |-> s, price |-> pq[1], size |-> pq[2], time |-> t, side |-> sd]] :
        s \in PairSet("kucoin"), pq \in PriceQty, t \in KucoinTimes,
        sd \in {BuyText, <<"s", "e", "l", "l">>}}
      \cup {[type |-> "message", subject |-> "trade.l3match",
              data |-> [symbol |-> "BTC-USDT", price |-> 6000, size |-> 100,
                        time |-> 1000000000, side |-> <<"B", "u", "y">>]]}

Frames(ex) == IF ex = "binance" THEN BinanceFrames ELSE KucoinFrames

----------------------------------------------------------------------------
(* TradeNormalizer: the field extraction at the head of handle_message *)
IsTradeEvent(ex, message) ==
    IF ex = "binance" THEN message.e = "trade"
    ELSE message.type = "message" /\ message.subject = "trade.l3match"

SymbolOf(ex, message) == IF ex = "binance" THEN message.s ELSE message.data.symbol
PriceOf(ex, message) == IF ex = "binance" THEN message.p ELSE message.data.price
QuantityOf(ex, message) == IF ex = "binance" THEN message.q ELSE message.data.size
TimestampOf(ex, message) == IF ex = "binance" THEN message.T ELSE message.data.time

\* str.lower() of one character: a capital letter becomes the small one, every
\* other character stays
LowerCase(c) ==
    CASE c = "A" -> "a" [] c = "B" -> "b" [] c = "C" -> "c" [] c = "D" -> "d"
      [] c = "E" -> "e" [] c = "F" -> "f" [] c = "G" -> "g" [] c = "H" -> "h"
      [] c = "I" -> "i" [] c = "J" -> "j" [] c = "K" -> "k" [] c = "L" -> "l"
      [] c = "M" -> "m" [] c = "N" -> "n" [] c = "O" -> "o" [] c = "P" -> "p"
      [] c = "Q" -> "q" [] c = "R" -> "r" [] c = "S" -> "s" [] c = "T" -> "t"
      [] c = "U" -> "u" [] c = "V" -> "v" [] c = "W" -> "w" [] c = "X" -> "x"
      [] c = "Y" -> "y" [] c = "Z" -> "z"
      [] OTHER -> c

\* str.lower(): every character in lower case, as the string the lists are keyed by
RECURSIVE Lower(_)
Lower(text) == IF text = <<>> THEN "" ELSE LowerCase(Head(text)) \o Lower(Tail(text))

\* a normalizer that takes the maker's side for the taker's
TradeSide_MakerSide(ex, message) ==
    IF ex = "binance" THEN (IF message.m THEN "buy" ELSE "sell")
    ELSE Lower(message.data.side)

\* Binance: the taker sells when the buyer is the maker; KuCoin: the side field,
\* in lower case
TradeSide(ex, message) ==
    IF ex = "binance" THEN (IF message.m THEN "sell" ELSE "buy")
    ELSE Lower(message.data.side)

\* KuCoin, line 124: datetime.fromtimestamp(timestamp / 1000000000).  The division
\* is done in binary floating point (53 bits, round to nearest, ties to even) and
\* fromtimestamp splits the quotient into seconds and a fraction, multiplies the
\* fraction by 10^6 in floating point and rounds the product to an integer, ties
\* to even.  The two floating-point roundings move the product by less than
\* 10^-9 microseconds, so a time that is not half-way between two microseconds
\* goes to the nearer one; for a time half-way the product is below, at or above
\* the half, and the three cases are told apart from the exact error of the
\* division, computed in integers.
NanosPerSecond == 1000000000

RECURSIVE TwoTo(_)
TwoTo(k) == IF k = 0 THEN 1 ELSE 2 * TwoTo(k - 1)

\* the number of doublings that bring v, 0 < v, to NanosPerSecond or above
RECURSIVE Doublings(_)
Doublings(v) == IF v >= NanosPerSecond THEN 0 ELSE 1 + Doublings(2 * v)

\* the binary exponent a of the quotient: 2^a <= n / 10^9 < 2^(a+1)
QuotientExponent(n) ==
    IF n >= 2 * NanosPerSecond THEN 1
    ELSE IF n >= NanosPerSecond THEN 0
    ELSE 0 - Doublings(n)

\* (n * 2^k) mod 10^9, by long division
RECURSIVE ShiftedRemainder(_, _)
ShiftedRemainder(n, k) ==
    IF k = 0 THEN n % NanosPerSecond
    ELSE (2 * ShiftedRemainder(n, k - 1)) % NanosPerSecond

\* the error of the floating-point division, in units of 1 / (10^9 * 2^p) with
\* p = 52 - a: the quotient is truncated to 53 bits and rounded to nearest, ties
\* to the even mantissa
DivisionError(n) ==
    LET p == 52 - QuotientExponent(n)
        R == ShiftedRemainder(n, p)
        last_bit == (2 * ShiftedRemainder(n, p - 1)) \div NanosPerSecond
    IN  IF 2 * R < NanosPerSecond THEN 0 - R
        ELSE IF 2 * R > NanosPerSecond THEN NanosPerSecond - R
        ELSE IF last_bit = 0 THEN 0 - R ELSE NanosPerSecond - R

\* floor(log2(x)) for x >= 1
RECURSIVE Log2Floor(_)
Log2Floor(x) == IF x < 2 THEN 0 ELSE 1 + Log2Floor(x \div 2)

\* e > 1000 * 2^s: the error moves the product past half a unit in the last place
MovesProduct(e, s) ==
    IF s >= 19 THEN FALSE
    ELSE IF s >= 0 THEN e > 1000 * TwoTo(s)
    ELSE e >= 1000 \/ e * TwoTo(0 - s) > 1000

\* the microseconds fromtimestamp(n / 1000000000) yields, n in nanoseconds
FromTimestamp(n) ==
    LET q == n \div 1000
        r == n % 1000
        x == q % 1000000
        j == IF x = 0 THEN 0 - 1 ELSE Log2Floor(x)
        s == j - QuotientExponent(n) - 1
    IN  IF 2 * r < 1000 THEN q
        ELSE IF 2 * r > 1000 THEN q + 1
        ELSE IF MovesProduct(DivisionError(n), s) THEN q + 1
        ELSE IF MovesProduct(0 - DivisionError(n), IF x = 0 THEN s - 1 ELSE s) THEN q
        ELSE IF q % 2 = 0 THEN q ELSE q + 1

\* datetime.fromtimestamp(timestamp / 1000) resp. (timestamp / 1000000000), in
\* microseconds; a Binance time is a whole number of milliseconds, which the
\* floating-point division and the rounding give back exactly
TransactionTime(ex, timestamp) ==
    IF ex = "binance" THEN timestamp * 1000 ELSE FromTimestamp(timestamp)

\* transaction_time.replace(microsecond=0), in seconds
IntervalStart(transaction_time) == transaction_time \div 1000000

\* a window test that also reopens for an earlier interval
Advances_AnyOther(interval, interval_start) ==
    interval = <<>> \/ interval_start # interval[1]

\* the test of line 121: no open interval, or a strictly later one
Advances(interval, interval_start) ==
    interval = <<>> \/ interval_start > interval[1]

\* the test of line 141
IsBigTransaction(transaction_value) ==
    transaction_value >= BIG_TRANSACTION_THRESHOLD * QuantityUnit

\* {pair: {'buy': [], 'sell': []} for pair in self.pairs}
EmptyBook(ex) == [pair \in PairSet(ex) |-> [side \in SideSet |-> <<>>]]

----------------------------------------------------------------------------
(* process_and_store_data *)
RECURSIVE SumQuantity(_)
SumQuantity(trades) ==
    IF trades = <<>> THEN 0 ELSE Head(trades).quantity + SumQuantity(Tail(trades))

RECURSIVE SumValue(_)
SumValue(trades) ==
    IF trades = <<>> THEN 0
    ELSE Head(trades).price * Head(trades).quantity + SumValue(Tail(trades))

\* a minimum that only looks at the first trade
MinPrice_First(trades) == Head(trades).price

RECURSIVE MinPrice(_)
MinPrice(trades) ==
    IF Len(trades) = 1 THEN Head(trades).price
    ELSE Min(Head(trades).price, MinPrice(Tail(trades)))

RECURSIVE MaxPrice(_)
MaxPrice(trades) ==
    IF Len(trades) = 1 THEN Head(trades).price
    ELSE Max(Head(trades).price, MaxPrice(Tail(trades)))

\* the fields output_data.update adds for one side that has trades
SideFields(side, trades) ==
    IF side = "buy" THEN
        [buy_count |-> Len(trades),
         buy_total_quantity |-> SumQuantity(trades),
         buy_total_value |-> SumValue(trades),
         buy_min_price |-> MinPrice(trades),
         buy_max_price |-> MaxPrice(trades),
         buy_avg_price |-> <<SumValue(trades), SumQuantity(trades)>>]
    ELSE
        [sell_count |-> Len(trades),
         sell_total_quantity |-> SumQuantity(trades),
         sell_total_value |-> SumValue(trades),
         sell_min_price |-> MinPrice(trades),
         sell_max_price |-> MaxPrice(trades),
         sell_avg_price |-> <<SumValue(trades), SumQuantity(trades)>>]

Source(ex) == ex

\* output_data of one symbol; a side without trades adds no field
OutputData(ex, timestamp, symbol, data) ==
    LET base == [timestamp |-> timestamp, symbol |-> symbol, source |-> Source(ex)]
    IN  IF data["buy"] # <<>> /\ data["sell"] # <<>>
            THEN base @@ SideFields("buy", data["buy"]) @@ SideFields("sell", data["sell"])
        ELSE IF data["buy"] # <<>> THEN base @@ SideFields("buy", data["buy"])
        ELSE IF data["sell"] # <<>> THEN base @@ SideFields("sell", data["sell"])
        ELSE base

HasTrades(data) == data["buy"] # <<>> \/ data["sell"] # <<>>

\* a flush that divides for every side, with or without trades
DivisionByZero_AnySide(ex, data) ==
    \E side \in SideSet : SumQuantity(data[side]) = 0

\* side_value / side_quantity (and, for Binance, total_value / total_quantity) divides by zero
DivisionByZero(ex, data) ==
    \/ \E side \in SideSet : data[side] # <<>> /\ SumQuantity(data[side]) = 0
    \/ /\ ex = "binance"
       /\ HasTrades(data)
       /\ SumQuantity(data["buy"]) + SumQuantity(data["sell"]) = 0

\* the loop of lines 168-237 raises (ZeroDivisionError) for some symbol
ProcessRaises(ex, txs) ==
    \E symbol \in DOMAIN txs : DivisionByZero(ex, txs[symbol])

\* documents, in the order of self.transactions.items()
RECURSIVE Documents(_, _, _, _)
Documents(ex, timestamp, txs, i) ==
    IF i > Len(Pairs(ex)) THEN <<>>
    ELSE LET symbol == Pairs(ex)[i]
         IN  (IF HasTrades(txs[symbol])
                 THEN <<OutputData(ex, timestamp, symbol, txs[symbol])>>
                 ELSE <<>>)
             \o Documents(ex, timestamp, txs, i + 1)

\* price_documents (Binance only): the weighted average price over both sides
RECURSIVE PriceDocuments(_, _, _, _)
PriceDocuments(ex, timestamp, txs, i) ==
    IF ex # "binance" \/ i > Len(Pairs(ex)) THEN <<>>
    ELSE LET symbol == Pairs(ex)[i]
             data == txs[symbol]
         IN  (IF HasTrades(data)
                 THEN <<[timestamp |-> timestamp, symbol |-> symbol, source |-> Source(ex),
                         price |-> <<SumValue(data["buy"]) + SumValue(data["sell"]),
                                     SumQuantity(data["buy"]) + SumQuantity(data["sell"])>>]>>
                 ELSE <<>>)
             \o PriceDocuments(ex, timestamp, txs, i + 1)

\* line 219: symbol[:-4].lower(), the token of a subscribed pair
TokenSymbol(symbol) ==
    CASE symbol = "BTCUSDT" -> "btc"
      [] symbol = "ETHUSDT" -> "eth"

\* price_updates (Binance only, lines 218-221), in the order of its keys: the
\* weighted average price of each token, the first one computed for the token
RECURSIVE PriceUpdates(_, _, _, _, _)
PriceUpdates(ex, timestamp, txs, i, tokens) ==
    IF ex # "binance" \/ i > Len(Pairs(ex)) THEN <<>>
    ELSE LET symbol == Pairs(ex)[i]
             data == txs[symbol]
             added == HasTrades(data) /\ TokenSymbol(symbol) \notin tokens
         IN  (IF added
                 THEN <<[symbol |-> TokenSymbol(symbol),
                         price |-> <<SumValue(data["buy"]) + SumValue(data["sell"]),
                                     SumQuantity(data["buy"]) + SumQuantity(data["sell"])>>,
                         timestamp |-> timestamp]>>
                 ELSE <<>>)
             \o PriceUpdates(ex, timestamp, txs, i + 1,
                             IF added THEN tokens \cup {TokenSymbol(symbol)} ELSE tokens)

\* the documents of one symbol's and side's pending big trades
RECURSIVE BigSideDocuments(_, _, _, _)
BigSideDocuments(ex, symbol, side, trades) ==
    IF trades = <<>> THEN <<>>
    ELSE <<[timestamp |-> Head(trades).timestamp, symbol |-> symbol, side |-> side,
            price |-> Head(trades).price, quantity |-> Head(trades).quantity,
            value |-> Head(trades).value, source |-> Source(ex)]>>
         \o BigSideDocuments(ex, symbol, side, Tail(trades))

RECURSIVE BigTransactionDocuments(_, _, _)
BigTransactionDocuments(ex, bigs, i) ==
    IF i > Len(Pairs(ex)) THEN <<>>
    ELSE LET symbol == Pairs(ex)[i]
         IN  BigSideDocuments(ex, symbol, "buy", bigs[symbol]["buy"])
             \o BigSideDocuments(ex, symbol, "sell", bigs[symbol]["sell"])
             \o BigTransactionDocuments(ex, bigs, i + 1)

----------------------------------------------------------------------------
(* The sink: bulk_insert and bulk_insert_big_transactions *)
\* the collections process_and_store_data writes to, in the order it does
Collections == {"stats", "prices", "coingecko_data", "big"}

\* What the sink does during one call of process_and_store_data: the collections
\* whose calls raise, and which of their calls do ("insert_many": every
\* insert_many; "first": every insert_many and the insert_one of the first
\* document of a batch; "all": every call).  The sink works, or it fails in one
\* of the three ways at every collection, or every call on one collection raises
\* while the other collections work.
NoFault == [mode |-> "none", where |-> {}]
Faults ==
    {NoFault}
        \cup {[mode |-> mode, where |-> Collections] : mode \in {"insert_many", "first", "all"}}
        \cup {[mode |-> "all", where |-> {collection}] : collection \in Collections}

InsertManyFails(fault, collection) == collection \in fault.where
InsertOneFails(fault, collection, i) ==
    /\ collection \in fault.where
    /\ fault.mode = "all" \/ (fault.mode = "first" /\ i = 1)
UpdateOneFails(fault, collection) == collection \in fault.where /\ fault.mode = "all"

\* the fallback loop of lines 303-307 and 317-321, from the i-th document on:
\* the insert_one calls it makes, each in its own try
RECURSIVE InsertOneByOne(_, _, _, _)
InsertOneByOne(collection, documents, fault, i) ==
    IF i > Len(documents) THEN <<>>
    ELSE <<[collection |-> collection, op |-> "insert_one", documents |-> <<documents[i]>>,
            ok |-> ~InsertOneFails(fault, collection, i)]>>
         \o InsertOneByOne(collection, documents, fault, i + 1)

\* bulk_insert (lines 296-307) and bulk_insert_big_transactions (lines 309-321):
\* the calls made on the sink for one batch
BulkInsert(collection, documents, fault) ==
    IF InsertManyFails(fault, collection)
        THEN <<[collection |-> collection, op |-> "insert_many", documents |-> documents,
                ok |-> FALSE]>>
             \o InsertOneByOne(collection, documents, fault, 1)
        ELSE <<[collection |-> collection, op |-> "insert_many", documents |-> documents,
                ok |-> TRUE]>>

\* the guards of lines 240, 251 and 281: an empty batch is not dispatched
Dispatch(collection, documents, fault) ==
    IF documents = <<>> THEN <<>> ELSE BulkInsert(collection, documents, fault)

\* lines 260-278: one update_one on coingecko_data per token of price_updates,
\* from the i-th on, each in its own try; an update sets prices.binance and
\* last_updated_binance of the token's document
RECURSIVE UpdateOneByOne(_, _, _)
UpdateOneByOne(updates, fault, i) ==
    IF i > Len(updates) THEN <<>>
    ELSE <<[collection |-> "coingecko_data", op |-> "update_one",
            documents |-> <<updates[i]>>,
            ok |-> ~UpdateOneFails(fault, "coingecko_data")]>>
         \o UpdateOneByOne(updates, fault, i + 1)

\* the documents the calls of a log stored in one collection (for coingecko_data:
\* the updates they made), in order
RECURSIVE Written(_, _)
Written(log, collection) ==
    IF log = <<>> THEN <<>>
    ELSE (IF Head(log).collection = collection /\ Head(log).ok
             THEN Head(log).documents ELSE <<>>)
         \o Written(Tail(log), collection)

\* the sink carries out one call: the documents of a call that succeeds are stored
SinkCall(call) ==
    /\ stats_sink' = stats_sink \o Written(<<call>>, "stats")
    /\ prices_sink' = prices_sink \o Written(<<call>>, "prices")
    /\ big_sink' = big_sink \o Written(<<call>>, "big")
    /\ coingecko_data' = coingecko_data \o Written(<<call>>, "coingecko_data")
    /\ sink_log' = Append(sink_log, call)

\* What process_and_store_data does on the sink for the interval and the books it
\* reads: the calls it awaits, in order.  An exception in the loop is caught at
\* line 291, before any call; the exception of an update_one is caught at line 277.
ProcessAndStore(interval, txs, bigs, fault) ==
    LET log ==
          IF ProcessRaises(exchange, txs) THEN <<>>
          ELSE Dispatch("stats", Documents(exchange, interval[1], txs, 1), fault)
               \o Dispatch("prices", PriceDocuments(exchange, interval[1], txs, 1), fault)
               \o UpdateOneByOne(PriceUpdates(exchange, interval[1], txs, 1, {}), fault, 1)
               \o Dispatch("big", BigTransactionDocuments(exchange, bigs, 1), fault)
    IN  [stats |-> Written(log, "stats"), prices |-> Written(log, "prices"),
         coingecko_data |-> Written(log, "coingecko_data"),
         big |-> Written(log, "big"), log |-> log]

\* process_and_store_data, from the state it is called in
ProcessAndStoreDataWith(fault) ==
    ProcessAndStore(current_interval, transactions, big_transactions, fault)

\* process_and_store_data on a sink that works
ProcessAndStoreData == ProcessAndStoreDataWith(NoFault)

----------------------------------------------------------------------------
(* handle_message, for a trade frame of a subscribed pair.  handle_message is  *)
(* a coroutine: it runs from the frame to the first write it awaits, from the  *)
(* answer of a write to the next write, and from the answer of the last write  *)
(* to its end.  pending holds the frame and the number of writes answered      *)
(* while it is suspended.                                                      *)
\* a flush built from lists that already hold the trade that closes the window
HandlerFlush_AppendFirst(message, fault) ==
    LET symbol == SymbolOf(exchange, message)
        trade_side == TradeSide(exchange, message)
        interval_start ==
            IntervalStart(TransactionTime(exchange, TimestampOf(exchange, message)))
        appended == IF transactions = <<>> THEN transactions
                    ELSE [transactions EXCEPT ![symbol][trade_side] =
                             Append(@, [price |-> PriceOf(exchange, message),
                                        quantity |-> QuantityOf(exchange, message)])]
    IN  IF current_interval # <<>> /\ Advances(current_interval, interval_start)
            THEN ProcessAndStore(current_interval, appended, big_transactions, fault).log
            ELSE <<>>

\* lines 121-124: the calls on the sink that handle_message awaits for the frame,
\* in order; none when the frame closes no window or the flush dispatches nothing
HandlerFlush(message, fault) ==
    LET interval_start ==
            IntervalStart(TransactionTime(exchange, TimestampOf(exchange, message)))
    IN  IF current_interval # <<>> /\ Advances(current_interval, interval_start)
            THEN ProcessAndStoreDataWith(fault).log
            ELSE <<>>

\* a handler out of which the exception of a failed write escapes: lines 125-150
\* are skipped
HandleTrade_SinkErrorEscapes(message, fault, metrics) ==
    LET symbol == SymbolOf(exchange, message)
        price == PriceOf(exchange, message)
        quantity == QuantityOf(exchange, message)
        trade_side == TradeSide(exchange, message)
        transaction_value == price * quantity
        transaction_time == TransactionTime(exchange, TimestampOf(exchange, message))
        interval_start == IntervalStart(transaction_time)
        advance == Advances(current_interval, interval_start)
        flush == advance /\ current_interval # <<>>
        done == IF pending = <<>> THEN 0 ELSE pending[1].done
        txs == IF advance THEN EmptyBook(exchange) ELSE transactions
        bigs == IF advance THEN EmptyBook(exchange) ELSE big_transactions
    IN  /\ IsTradeEvent(exchange, message)
        /\ \E calls \in {HandlerFlush(message, fault)} :
           \E raised \in {\E k \in DOMAIN calls : ~calls[k].ok} :
              IF pending = <<>> /\ calls # <<>>
                 THEN /\ pending' = <<[frame |-> message, fault |-> fault, done |-> 0]>>
                      /\ last_event' = "write_sent"
                      /\ UNCHANGED aggVars
              ELSE IF pending # <<>> /\ done + 1 < Len(calls)
                 THEN /\ SinkCall(calls[done + 1])
                      /\ pending' = <<[pending[1] EXCEPT !.done = done + 1]>>
                      /\ last_event' = "write_done"
                      /\ UNCHANGED <<current_interval, transactions, big_transactions,
                                     history>>
              ELSE /\ IF pending # <<>>
                         THEN SinkCall(calls[Len(calls)])
                         ELSE UNCHANGED <<stats_sink, prices_sink, big_sink, coingecko_data, sink_log>>
                   /\ pending' = <<>>
                   /\ last_event' = "frame"
                   /\ current_interval' =
                         IF advance /\ ~raised THEN <<interval_start>> ELSE current_interval
                   /\ transactions' =
                         IF raised THEN transactions
                         ELSE [txs EXCEPT ![symbol][trade_side] =
                                  Append(@, [price |-> price, quantity |-> quantity])]
                   /\ big_transactions' =
                         IF raised THEN big_transactions
                         ELSE IF IsBigTransaction(transaction_value)
                            THEN [bigs EXCEPT ![symbol][trade_side] =
                                     Append(@, [price |-> price, quantity |-> quantity,
                                                value |-> transaction_value,
                                                timestamp |-> transaction_time])]
                            ELSE bigs
                   /\ history' = Append(history,
                         [symbol |-> symbol, side |-> trade_side, price |-> price,
                          quantity |-> quantity, time |-> TimestampOf(exchange, message),
                          window |-> current_interval'[1],
                          closed |-> IF flush THEN current_interval ELSE <<>>,
                          frame |-> message, metrics |-> "none", entry |-> entries])

\* lines 102-155: handle_message for a trade frame, on a sink with the given fault
\* and with the given failure of the metrics registry ("none": every update works,
\* "update": one of the three updates of lines 136-138 raises, "big_counter": the
\* increment of line 142 raises).  A frame of a pair that is not subscribed, or of
\* a side that is not a key of the lists, raises KeyError at line 128.
\* One step of the coroutine: with nothing pending the frame has just arrived, and
\* the handler runs to the first write of the flush (lines 124 -> 243 -> 299) or,
\* when the flush awaits nothing, to its end; with a write pending the sink
\* answers it, and the handler runs to the next write or through lines 125-150.
HandleTrade(message, fault, metrics) ==
    LET symbol == SymbolOf(exchange, message)
        price == PriceOf(exchange, message)
        quantity == QuantityOf(exchange, message)
        trade_side == TradeSide(exchange, message)
        transaction_value == price * quantity
        transaction_time == TransactionTime(exchange, TimestampOf(exchange, message))
        interval_start == IntervalStart(transaction_time)
        advance == Advances(current_interval, interval_start)
        flush == advance /\ current_interval # <<>>
        done == IF pending = <<>> THEN 0 ELSE pending[1].done
        txs == IF advance THEN EmptyBook(exchange) ELSE transactions
        bigs == IF advance THEN EmptyBook(exchange) ELSE big_transactions
        accepted == symbol \in PairSet(exchange) /\ trade_side \in SideSet
        updated == accepted /\ metrics # "update"
        big == updated /\ IsBigTransaction(transaction_value) /\ metrics # "big_counter"
    IN  /\ IsTradeEvent(exchange, message)
        /\ \E calls \in {HandlerFlush(message, fault)} :
              IF pending = <<>> /\ calls # <<>>
                 THEN /\ pending' = <<[frame |-> message, fault |-> fault, done |-> 0]>>
                      /\ last_event' = "write_sent"
                      /\ UNCHANGED aggVars
              ELSE IF pending # <<>> /\ done + 1 < Len(calls)
                 THEN /\ SinkCall(calls[done + 1])
                      /\ pending' = <<[pending[1] EXCEPT !.done = done + 1]>>
                      /\ last_event' = "write_done"
                      /\ UNCHANGED <<current_interval, transactions, big_transactions,
                                     history>>
              ELSE /\ IF pending # <<>>
                         THEN SinkCall(calls[Len(calls)])
                         ELSE UNCHANGED <<stats_sink, prices_sink, big_sink, coingecko_data, sink_log>>
                   /\ pending' = <<>>
                   /\ last_event' = IF ~accepted THEN "rejected"
                                    ELSE IF metrics # "none" THEN "metrics_failed"
                                    ELSE "frame"
                   /\ current_interval' =
                         IF advance THEN <<interval_start>> ELSE current_interval
                   /\ transactions' =
                         IF accepted
                            THEN [txs EXCEPT ![symbol][trade_side] =
                                     Append(@, [price |-> price, quantity |-> quantity])]
                            ELSE txs
                   /\ big_transactions' =
                         IF big
                            THEN [bigs EXCEPT ![symbol][trade_side] =
                                     Append(@, [price |-> price, quantity |-> quantity,
                                                value |-> transaction_value,
                                                timestamp |-> transaction_time])]
                            ELSE bigs
                   /\ history' =
                         IF accepted
                            THEN Append(history,
                                   [symbol |-> symbol, side |-> trade_side, price |-> price,
                                    quantity |-> quantity,
                                    time |-> TimestampOf(exchange, message),
                                    window |-> current_interval'[1],
                                    closed |-> IF flush THEN current_interval ELSE <<>>,
                                    frame |-> message, metrics |-> metrics,
                                    entry |-> entries])
                            ELSE history

----------------------------------------------------------------------------
(* connect: the retry loop *)
\* exception classes a connection attempt or a receive can end with
RetryableErrors == {"ConnectionClosed", "WebSocketException", "TimeoutError"}
ConnectErrors(ex) ==
    {"WebSocketException", "TimeoutError", "OSError"}
        \cup (IF ex = "kucoin" THEN {"KucoinAPIException"} ELSE {})

\* what recv raises when the connection drops
StreamErrors == {"ConnectionClosed"}

\* lines 82-84: the classes the retry handler catches
Caught(error) == error \in RetryableErrors

\* lines 88-90: what connect() does once retry_count reaches max_retries
ExhaustedOutcome == "returned"

\* how connect() ends: both except paths return (lines 90, 98); a cancellation propagates
ConnectOutcome(cause) == IF cause = "cancelled" THEN "cancelled" ELSE ExhaustedOutcome

\* lines 344-352: main ends normally when connect() returns (or raises an Exception,
\* which line 345 catches); only a cancellation leaves main as an error
MainOutcome(connect_outcome) ==
    IF connect_outcome = "cancelled" THEN "cancelled" ELSE "normal"

\* the two except clauses of connect (lines 82-98), before the backoff sleep
OnError(error) ==
    /\ fails' = IF pc = "streaming" THEN 1 ELSE fails + 1
    /\ IF Caught(error)
          THEN /\ retry_count' = retry_count + 1
               /\ IF retry_count + 1 >= max_retries
                     THEN pc' = "finally" /\ exit_cause' = "max_retries"
                     ELSE pc' = "sleeping" /\ exit_cause' = exit_cause
          ELSE /\ retry_count' = retry_count
               /\ pc' = "finally"
               /\ exit_cause' = IF error = "JSONDecodeError" THEN "malformed" ELSE "unexpected"

\* one pass of lines 42-64 that ends with an exception
ConnectFails(error) ==
    /\ pc = "connecting"
    /\ retry_count < max_retries
    /\ attempts < MaxAttempts
    /\ error \in ConnectErrors(exchange)
    /\ attempts' = attempts + 1
    /\ OnError(error)
    /\ last_event' = "connect_failed"
    /\ UNCHANGED <<bookVars, procVars, interrupted, exchange, interval_seconds, pending, retry_delay, main_outcome, slept, sleeps,
                   entries>>
    /\ UNCHANGED aggVars

\* the replies to the subscription request that are valid JSON: the confirmation
\* ({"result": null, "id": 1}) and an error frame ({"error": {...}, "id": 1})
SubscriptionReplies == {"confirmation", "error"}

\* a connect that keeps its retry counters when it enters the streaming loop
ConnectSucceeds_NoReset(reply) ==
    /\ pc = "connecting"
    /\ retry_count < max_retries
    /\ attempts < MaxAttempts
    /\ attempts' = attempts + 1
    /\ pc' = "streaming"
    /\ entries' = entries + 1
    /\ last_event' = IF reply = "error" THEN "subscription_error" ELSE "subscribed"
    /\ UNCHANGED <<bookVars, procVars, interrupted, exchange, interval_seconds, pending, retry_count, retry_delay, exit_cause,
                   main_outcome, fails, slept, sleeps>>
    /\ UNCHANGED aggVars

\* a reconnection that starts the aggregator afresh: the open window is discarded
ConnectSucceeds_DiscardsWindow(reply) ==
    /\ pc = "connecting"
    /\ retry_count < max_retries
    /\ attempts < MaxAttempts
    /\ attempts' = attempts + 1
    /\ retry_count' = 0
    /\ retry_delay' = initial_retry_delay
    /\ pc' = "streaming"
    /\ entries' = entries + 1
    /\ last_event' = IF reply = "error" THEN "subscription_error" ELSE "subscribed"
    /\ current_interval' = <<>>
    /\ transactions' = <<>>
    /\ big_transactions' = <<>>
    /\ UNCHANGED <<bookVars, procVars, interrupted, exchange, interval_seconds, pending, exit_cause, main_outcome, fails, slept,
                   sleeps, stats_sink, prices_sink, big_sink, coingecko_data, history, sink_log>>

\* one pass of lines 42-64 that reaches the streaming loop.  Binance reads the reply
\* to its subscription (lines 56-61) and only prints which of the two it was; KuCoin
\* does not read a reply before it resets the counters (lines 59-72).
ConnectSucceeds(reply) ==
    /\ pc = "connecting"
    /\ retry_count < max_retries
    /\ attempts < MaxAttempts
    /\ attempts' = attempts + 1
    /\ retry_count' = 0
    /\ retry_delay' = initial_retry_delay
    /\ pc' = "streaming"
    /\ entries' = entries + 1
    /\ last_event' = IF reply = "error" THEN "subscription_error" ELSE "subscribed"
    /\ UNCHANGED <<bookVars, procVars, interrupted, exchange, interval_seconds, pending, exit_cause, main_outcome, fails, slept,
                   sleeps>>
    /\ UNCHANGED aggVars

\* Binance, lines 56-57: the reply to the subscription is not valid JSON; json.loads
\* raises outside the streaming loop
SubscriptionMalformed ==
    /\ exchange = "binance"
    /\ pc = "connecting"
    /\ retry_count < max_retries
    /\ attempts < MaxAttempts
    /\ attempts' = attempts + 1
    /\ OnError("JSONDecodeError")
    /\ last_event' = "malformed"
    /\ UNCHANGED <<bookVars, procVars, interrupted, exchange, interval_seconds, pending, retry_delay, main_outcome, slept, sleeps,
                   entries>>
    /\ UNCHANGED aggVars

\* a backoff whose delay doubles without a cap
Backoff_Uncapped ==
    /\ pc = "sleeping"
    /\ slept' = (IF fails = 1 THEN 0 ELSE slept) + retry_delay
    /\ sleeps' = (IF fails = 1 THEN 0 ELSE sleeps) + 1
    /\ retry_delay' = retry_delay * 2
    /\ pc' = "connecting"
    /\ last_event' = "slept"
    /\ UNCHANGED <<bookVars, procVars, interrupted, exchange, interval_seconds, pending, retry_count, exit_cause, main_outcome,
                   attempts, fails, entries>>
    /\ UNCHANGED aggVars

\* lines 92-94: the backoff sleep and the doubling of the delay
Backoff ==
    /\ pc = "sleeping"
    /\ slept' = (IF fails = 1 THEN 0 ELSE slept) + retry_delay
    /\ sleeps' = (IF fails = 1 THEN 0 ELSE sleeps) + 1
    /\ retry_delay' = Min(retry_delay * 2, max_retry_delay)
    /\ pc' = "connecting"
    /\ last_event' = "slept"
    /\ UNCHANGED <<bookVars, procVars, interrupted, exchange, interval_seconds, pending, retry_count, exit_cause, main_outcome,
                   attempts, fails, entries>>
    /\ UNCHANGED aggVars

\* lines 66-70: recv returns a trade frame and handle_message is called, on a sink
\* with the given fault and a metrics registry with the given failure: the handler
\* runs to the first write it awaits or, when it awaits none, to its end
ReceiveTrade(message, fault, metrics) ==
    /\ pc = "streaming"
    /\ pending = <<>>
    /\ HandleTrade(message, fault, metrics)
    /\ UNCHANGED <<bookVars, procVars, interrupted, exchange, interval_seconds, pc, main_outcome>>
    /\ UNCHANGED supVars

\* a trade frame arrives, on a sink with the given fault
ReceiveFrameWith(message, fault) ==
    /\ Len(history) < MaxTrades
    /\ ReceiveTrade(message, fault, "none")

\* a trade frame arrives
ReceiveFrame(message) == ReceiveFrameWith(message, NoFault)

\* lines 299, 303-307, 317-321 and async_mongo.py 43: the sink answers the write
\* the handler awaits, and the handler goes on to the next write of the flush or,
\* after the last one, through lines 125-150 and back to recv
SinkAnswers(metrics) ==
    /\ pc = "streaming"
    /\ pending # <<>>
    /\ HandleTrade(pending[1].frame, pending[1].fault, metrics)
    /\ UNCHANGED <<bookVars, procVars, interrupted, exchange, interval_seconds, pc, main_outcome>>
    /\ UNCHANGED supVars

\* malformed frames: text that is not JSON, a trade that lacks a field, a trade
\* whose price or quantity is not a number
MalformedKinds == {"invalid_json", "missing_field", "unparseable_field"}

\* what a malformed frame makes the streaming loop raise: json.loads (line 69),
\* message['m'] (line 109), float(message['p']) (line 106)
RaisedBy(kind) ==
    CASE kind = "invalid_json" -> "JSONDecodeError"
      [] kind = "missing_field" -> "KeyError"
      [] kind = "unparseable_field" -> "ValueError"

\* the exceptions of one frame that the streaming loop survives: line 76 catches
\* JSONDecodeError, handle_message catches KeyError (line 152) and Exception (line 154)
SkippedInStreaming(error) == error \in {"JSONDecodeError", "KeyError", "ValueError"}

\* lines 66-80: a malformed frame arrives in the streaming loop.  The fields are
\* read (lines 105-109) before handle_message changes anything.
ReceiveMalformed(kind) ==
    /\ pc = "streaming"
    /\ pending = <<>>
    /\ IF SkippedInStreaming(RaisedBy(kind))
          THEN UNCHANGED <<pc, retry_count, exit_cause, fails>>
          ELSE OnError(RaisedBy(kind))
    /\ last_event' = "malformed"
    /\ UNCHANGED <<bookVars, procVars, interrupted, exchange, interval_seconds, pending, retry_delay, main_outcome, attempts, slept,
                   sleeps, entries>>
    /\ UNCHANGED aggVars

\* Binance awaits the pong of its ping for 10 seconds (lines 73-74); KuCoin sends the
\* ping and goes back to recv (lines 81-82)
AwaitsPong(ex) == ex = "binance"

\* lines 71-75: no frame for 30 seconds; a ping is sent, and the peer answers or not
RecvTimeout(pong) ==
    /\ pc = "streaming"
    /\ pending = <<>>
    /\ IF AwaitsPong(exchange) /\ ~pong
          THEN OnError("TimeoutError")
          ELSE UNCHANGED <<pc, retry_count, exit_cause, fails>>
    /\ last_event' = IF pong THEN "pong" ELSE "no_pong"
    /\ UNCHANGED <<bookVars, procVars, interrupted, exchange, interval_seconds, pending, retry_delay, main_outcome, attempts, slept,
                   sleeps, entries>>
    /\ UNCHANGED aggVars

\* lines 68, 78-80: recv raises, the exception leaves the streaming loop
StreamFails(error) ==
    /\ pc = "streaming"
    /\ pending = <<>>
    /\ error \in StreamErrors
    /\ OnError(error)
    /\ last_event' = "stream_failed"
    /\ UNCHANGED <<bookVars, procVars, interrupted, exchange, interval_seconds, pending, retry_delay, main_outcome, attempts, slept,
                   sleeps, entries>>
    /\ UNCHANGED aggVars

\* the task is cancelled (shutdown) at one of connect's suspension points: the
\* connection attempt, recv or the backoff sleep
Cancel ==
    /\ pc \in {"connecting", "streaming", "sleeping"}
    /\ pending = <<>>
    /\ pc' = "finally"
    /\ exit_cause' = "cancelled"
    /\ last_event' = "cancelled"
    /\ UNCHANGED <<bookVars, procVars, interrupted, exchange, interval_seconds, pending, retry_count, retry_delay, main_outcome,
                   attempts, fails, slept, sleeps, entries>>
    /\ UNCHANGED aggVars

\* lines 325-326: the calls on the sink that close() awaits, in order
CloseFlush(fault) ==
    IF transactions # <<>> THEN ProcessAndStoreDataWith(fault).log ELSE <<>>

\* main's finally block: close() flushes the open window, then the sink is released.
\* One step of close(): the sink answers the write close() awaits (the first one
\* when nothing is pending yet), and close() goes on to the next write of the flush
\* or, after the last one, to the end of main.  A flush that awaits nothing ends at
\* once.
CloseWith(fault) ==
    /\ pc = "finally"
    /\ pending # <<>> => pending[1].fault = fault
    /\ \E calls \in {CloseFlush(fault)} :
       \E done \in {IF pending = <<>> THEN 0 ELSE pending[1].done} :
          IF done + 1 < Len(calls)
             THEN /\ SinkCall(calls[done + 1])
                  /\ pending' = <<[fault |-> fault, done |-> done + 1]>>
                  /\ last_event' = "write_done"
                  /\ UNCHANGED <<pc, main_outcome>>
             ELSE /\ IF calls # <<>>
                        THEN SinkCall(calls[Len(calls)])
                        ELSE UNCHANGED <<stats_sink, prices_sink, big_sink, coingecko_data, sink_log>>
                  /\ pending' = <<>>
                  /\ pc' = "exited"
                  /\ main_outcome' = MainOutcome(ConnectOutcome(exit_cause))
                  /\ last_event' = "closed"
    /\ UNCHANGED <<bookVars, procVars, interrupted, exchange, interval_seconds, current_interval, transactions,
                   big_transactions, history>>
    /\ UNCHANGED supVars

\* main's finally block on a sink that works
Close == CloseWith(NoFault)

\* lines 121-124: the task is cancelled while handle_message awaits a write of the
\* flush, which the sink has not carried out or has carried out all the same.
\* CancelledError is not an Exception: no handler of bulk_insert,
\* process_and_store_data, handle_message or connect catches it, lines 125-150 are
\* not reached and the finally block of main follows, with current_interval and
\* the lists as they were before the flush.
CancelDuringFlush(carried) ==
    /\ pc = "streaming"
    /\ pending # <<>>
    /\ IF carried
          THEN \E calls \in {HandlerFlush(pending[1].frame, pending[1].fault)} :
                  SinkCall(calls[pending[1].done + 1])
          ELSE UNCHANGED <<stats_sink, prices_sink, big_sink, coingecko_data, sink_log>>
    /\ pending' = <<>>
    /\ pc' = "finally"
    /\ exit_cause' = "cancelled"
    /\ interrupted' = TRUE
    /\ last_event' = "cancelled_in_flush"
    /\ UNCHANGED <<bookVars, procVars, exchange, interval_seconds, current_interval,
                   transactions, big_transactions, history, retry_count, retry_delay,
                   main_outcome, attempts, fails, slept, sleeps, entries>>

\* lines 323-326 and 347-348: the task is cancelled (again) while close() awaits a
\* write of its flush, which the sink has not carried out or has carried out all
\* the same; main ends with CancelledError, whatever connect() had ended with
CloseCancelledWith(fault, carried) ==
    /\ pc = "finally"
    /\ pending # <<>> => pending[1].fault = fault
    /\ \E calls \in {CloseFlush(fault)} :
          /\ calls # <<>>
          /\ IF carried
                THEN SinkCall(calls[(IF pending = <<>> THEN 0 ELSE pending[1].done) + 1])
                ELSE UNCHANGED <<stats_sink, prices_sink, big_sink, coingecko_data, sink_log>>
    /\ pending' = <<>>
    /\ pc' = "exited"
    /\ main_outcome' = "cancelled"
    /\ interrupted' = TRUE
    /\ last_event' = "close_cancelled"
    /\ UNCHANGED <<bookVars, procVars, exchange, interval_seconds, current_interval,
                   transactions, big_transactions, history>>
    /\ UNCHANGED supVars

CloseCancelled(carried) == CloseCancelledWith(NoFault, carried)

----------------------------------------------------------------------------
Init ==
    /\ exchange \in Exchanges
    /\ pc = "connecting"
    /\ retry_count = 0
    /\ retry_delay = initial_retry_delay
    /\ current_interval = <<>>
    /\ transactions = <<>>
    /\ big_transactions = <<>>
    /\ interval_seconds = 1
    /\ stats_sink = <<>>
    /\ prices_sink = <<>>
    /\ big_sink = <<>>
    /\ coingecko_data = <<>>
    /\ sink_log = <<>>
    /\ exit_cause = "none"
    /\ main_outcome = "running"
    /\ history = <<>>
    /\ attempts = 0
    /\ fails = 0
    /\ slept = 0
    /\ sleeps = 0
    /\ entries = 0
    /\ last_event = "none"
    /\ pending = <<>>
    /\ interrupted = FALSE
    /\ InitManager
    /\ InitProcessor

\* The supervisor: every outcome of a connection attempt and of a wait in recv
\* that is not a trade
Next ==
    \/ \E error \in ConnectErrors(exchange) : ConnectFails(error)
    \/ \E reply \in SubscriptionReplies : ConnectSucceeds(reply)
    \/ SubscriptionMalformed
    \/ Backoff
    \/ \E kind \in MalformedKinds : ReceiveMalformed(kind)
    \/ \E pong \in BOOLEAN : RecvTimeout(pong)
    \/ \E error \in StreamErrors : StreamFails(error)
    \/ Cancel
    \/ Close

Spec == Init /\ [][Next]_vars

\* The aggregator: a transport that connects at once and delivers trade frames
\* of two consecutive seconds
NextAgg ==
    \/ \E reply \in SubscriptionReplies : ConnectSucceeds(reply)
    \/ \E message \in {f \in Frames(exchange) :
                           TimestampOf(exchange, f) \notin {2000, 2000000000}} :
          ReceiveFrame(message)
    \/ SinkAnswers("none")
    \/ \E carried \in BOOLEAN : CancelDuringFlush(carried)
    \/ Cancel
    \/ Close
    \/ \E carried \in BOOLEAN : CloseCancelled(carried)

SpecAgg == Init /\ [][NextAgg]_vars

\* frames for the sink: both pairs, a trade at the threshold and one below it, two
\* seconds
SinkFrames(ex) ==
    IF ex = "binance"
        THEN {f \in BinanceFrames : f.q > 0 /\ ~f.m /\ f.T >= 1000}
        ELSE {f \in KucoinFrames :
                 f.data.size > 0 /\ f.data.side = BuyText /\ f.data.time >= 1000000000}

\* The sink: trade frames and a shutdown, each flush on a sink with some fault
NextSink ==
    \/ \E reply \in SubscriptionReplies : ConnectSucceeds(reply)
    \/ \E message \in SinkFrames(exchange) : \E fault \in Faults :
          ReceiveFrameWith(message, fault)
    \/ SinkAnswers("none")
    \/ \E carried \in BOOLEAN : CancelDuringFlush(carried)
    \/ Cancel
    \/ \E fault \in Faults : CloseWith(fault)
    \/ \E fault \in Faults : \E carried \in BOOLEAN : CloseCancelledWith(fault, carried)

SpecSink == Init /\ [][NextSink]_vars

\* trades of one pair at event times around the second and the ten seconds
WindowFrames(ex) ==
    IF ex = "binance"
        THEN {[e |-> "trade", s |-> "BTCUSDT", p |-> 5000, q |-> 100, T |-> t, m |-> FALSE] :
                 t \in {0, 999, 1000, 9999, 10000, 12000, 19999, 20000}}
        ELSE {[type |-> "message", subject |-> "trade.l3match",
               data |-> [symbol |-> "BTC-USDT", price |-> 5000, size |-> 100, time |-> t,
                         side |-> BuyText]] :
                 t \in {0, 999999499, 999999501, 999999999, 1000000000, 1999999500,
                        1999999999, 2000000000}}

\* The window start: trade frames at the event times of WindowFrames
NextWindow ==
    \/ \E reply \in SubscriptionReplies : ConnectSucceeds(reply)
    \/ \E message \in WindowFrames(exchange) : ReceiveFrame(message)
    \/ SinkAnswers("none")
    \/ \E carried \in BOOLEAN : CancelDuringFlush(carried)
    \/ Cancel
    \/ Close
    \/ \E carried \in BOOLEAN : CloseCancelled(carried)

SpecWindow == Init /\ [][NextWindow]_vars

\* the three trades of the end-to-end example, as Binance trade frames: quantities
\* 0.01, 0.3 and 0.01, event times 3 s, 7 s and 12 s
ExampleTrades ==
    <<[e |-> "trade", s |-> "BTCUSDT", p |-> 50000, q |-> 1, T |-> 3000, m |-> FALSE],
      [e |-> "trade", s |-> "BTCUSDT", p |-> 50010, q |-> 30, T |-> 7000, m |-> TRUE],
      [e |-> "trade", s |-> "BTCUSDT", p |-> 50020, q |-> 1, T |-> 12000, m |-> FALSE]>>

\* the Binance client after construction
InitExample == Init /\ exchange = "binance"

\* lines 66-70: the next trade of the example arrives and is handled
ReceiveExample ==
    /\ Len(history) < Len(ExampleTrades)
    /\ ReceiveTrade(ExampleTrades[Len(history) + 1], NoFault, "none")

\* The example: the supervisor, with the trades of the example delivered in order
\* and a shutdown that may cut a flush short
NextExample ==
    \/ Next
    \/ ReceiveExample
    \/ SinkAnswers("none")
    \/ \E carried \in BOOLEAN : CancelDuringFlush(carried)
    \/ \E carried \in BOOLEAN : CloseCancelled(carried)

SpecExample == InitExample /\ [][NextExample]_vars

----------------------------------------------------------------------------
(* Ghost readings of the history, used by the properties below *)
\* the window start of a handled trade: its event time truncated to the second
WindowStartOf(h) == IntervalStart(TransactionTime(exchange, h.time))

Emitted == {stats_sink[i] : i \in DOMAIN stats_sink}

\* the handled trades of one symbol and side that were accumulated into window w
Accumulated(symbol, side, w) ==
    {i \in DOMAIN history :
        history[i].symbol = symbol /\ history[i].side = side /\ history[i].window = w}

RECURSIVE GhostQuantity(_)
GhostQuantity(S) ==
    IF S = {} THEN 0
    ELSE LET i == CHOOSE x \in S : TRUE
         IN  history[i].quantity + GhostQuantity(S \ {i})

RECURSIVE GhostValue(_)
GhostValue(S) ==
    IF S = {} THEN 0
    ELSE LET i == CHOOSE x \in S : TRUE
         IN  history[i].price * history[i].quantity + GhostValue(S \ {i})

HasSide(doc, side) ==
    IF side = "buy" THEN "buy_count" \in DOMAIN doc ELSE "sell_count" \in DOMAIN doc

\* the six fields of one side of an emitted document
SideOf(doc, side) ==
    IF side = "buy"
       THEN [count |-> doc.buy_count, total_quantity |-> doc.buy_total_quantity,
             total_value |-> doc.buy_total_value, min_price |-> doc.buy_min_price,
             max_price |-> doc.buy_max_price, avg_price |-> doc.buy_avg_price]
       ELSE [count |-> doc.sell_count, total_quantity |-> doc.sell_total_quantity,
             total_value |-> doc.sell_total_value, min_price |-> doc.sell_min_price,
             max_price |-> doc.sell_max_price, avg_price |-> doc.sell_avg_price]

DocCount(doc) ==
    (IF HasSide(doc, "buy") THEN doc.buy_count ELSE 0)
        + (IF HasSide(doc, "sell") THEN doc.sell_count ELSE 0)

RECURSIVE TotalCount(_)
TotalCount(docs) ==
    IF docs = <<>> THEN 0 ELSE DocCount(Head(docs)) + TotalCount(Tail(docs))

\* each symbol's window starts never decrease along the history
MonotonePerSymbol ==
    \A i, j \in DOMAIN history :
        (i < j /\ history[i].symbol = history[j].symbol)
            => WindowStartOf(history[i]) <= WindowStartOf(history[j])

----------------------------------------------------------------------------
(* C1 (stated as claimed; violated): when each symbol's window starts are     *)
(* non-decreasing, every emitted window record of (symbol, windowStart)       *)
(* counts exactly the trades of that symbol whose truncated event time is     *)
(* that windowStart.                                                          *)
C1_CountMatchesWindow ==
    MonotonePerSymbol =>
        \A doc \in Emitted :
            DocCount(doc) =
                Cardinality({i \in DOMAIN history :
                    /\ history[i].symbol = doc.symbol
                    /\ WindowStartOf(history[i]) = doc.timestamp})

(* C2 (stated as claimed; violated): after the shutdown flush the counts of   *)
(* all emitted window records add up to the number of trades handled.         *)
C2_EveryTradeCountedOnce ==
    pc = "exited" => TotalCount(stats_sink) = Len(history)

(* Supporting C1: with trades of one symbol only, the count of C1 holds.      *)
C1_SingleSymbolCount ==
    (MonotonePerSymbol /\ \A i, j \in DOMAIN history : history[i].symbol = history[j].symbol)
        => \A doc \in Emitted :
              DocCount(doc) =
                  Cardinality({i \in DOMAIN history :
                      /\ history[i].symbol = doc.symbol
                      /\ WindowStartOf(history[i]) = doc.timestamp})

(* Supporting C2: when no window holds a side whose quantities add up to 0   *)
(* and no flush was cut short by a cancellation, every handled trade is      *)
(* counted in exactly one emitted record.                                    *)
C2_CountedOnceWithoutZeroQuantity ==
    (pc = "exited" /\ ~interrupted /\ \A i \in DOMAIN history : history[i].quantity > 0)
        => TotalCount(stats_sink) = Len(history)

----------------------------------------------------------------------------
\* the pending entry handle_message is expected to keep for a big trade
GhostBigEntry(i) ==
    [price |-> history[i].price, quantity |-> history[i].quantity,
     value |-> history[i].price * history[i].quantity,
     timestamp |-> TransactionTime(exchange, history[i].time)]

\* the big trades among the trades accumulated into window w, in arrival order
RECURSIVE GhostBigList(_, _, _, _)
GhostBigList(symbol, side, w, n) ==
    IF n = 0 THEN <<>>
    ELSE GhostBigList(symbol, side, w, n - 1)
         \o (IF /\ n \in Accumulated(symbol, side, w)
                /\ history[n].price * history[n].quantity
                      >= BIG_TRANSACTION_THRESHOLD * QuantityUnit
                THEN <<GhostBigEntry(n)>>
                ELSE <<>>)

BigEmitted == {big_sink[i] : i \in DOMAIN big_sink}

\* the pending lists of the open window hold one entry for each of its trades at
\* or above the threshold and none for the others, and every dispatched entry is
\* such a trade of the history, with value = price * quantity
BigEntriesMatchTrades ==
    /\ current_interval # <<>> =>
          \A symbol \in PairSet(exchange) : \A side \in SideSet :
              big_transactions[symbol][side] =
                  GhostBigList(symbol, side, current_interval[1], Len(history))
    /\ \A doc \in BigEmitted :
          /\ doc.value = doc.price * doc.quantity
          /\ doc.value >= BIG_TRANSACTION_THRESHOLD * QuantityUnit
          /\ \E i \in DOMAIN history :
                /\ history[i].symbol = doc.symbol
                /\ history[i].side = doc.side
                /\ GhostBigEntry(i).timestamp = doc.timestamp
                /\ history[i].price = doc.price
                /\ history[i].quantity = doc.quantity

(* C3 (stated as claimed; violated): every handled trade with                 *)
(* price*quantity >= threshold has exactly one BigTransaction entry, in the   *)
(* pending list of its symbol and side of the window it was accumulated into, *)
(* with value = price*quantity; a trade below the threshold has none; and a   *)
(* dispatched BigTransaction is such a big trade of the history.              *)
C3_BigTransactionIffThreshold == BigEntriesMatchTrades

(* Supporting C3: it holds as long as no update of the metrics has failed     *)
(* while a trade was handled.                                                 *)
C3_BigTransactionIffThresholdWithMetrics ==
    (\A i \in DOMAIN history : history[i].metrics = "none") => BigEntriesMatchTrades

----------------------------------------------------------------------------
\* the prices of the trades of an index set
GhostPrices(S) == {history[i].price : i \in S}

(* C4: in every emitted window record, for each side that has a count: the   *)
(* count, total_quantity and total_value are those of the trades accumulated *)
(* on that side of that window, avg_price is total_value / total_quantity,   *)
(* and min_price and max_price are the least and the greatest of their       *)
(* prices; a side without a count accumulated no trade.                      *)
C4_SideAggregates ==
    \A doc \in Emitted : \A side \in SideSet :
        LET acc == Accumulated(doc.symbol, side, doc.timestamp)
        IN  IF HasSide(doc, side)
               THEN LET agg == SideOf(doc, side)
                    IN  /\ agg.count > 0
                        /\ agg.count = Cardinality(acc)
                        /\ agg.total_quantity = GhostQuantity(acc)
                        /\ agg.total_value = GhostValue(acc)
                        /\ agg.total_quantity # 0
                        /\ agg.avg_price = <<agg.total_value, agg.total_quantity>>
                        /\ agg.min_price \in GhostPrices(acc)
                        /\ agg.max_price \in GhostPrices(acc)
                        /\ \A price \in GhostPrices(acc) :
                              agg.min_price <= price /\ price <= agg.max_price
               ELSE acc = {}

\* C4 witness: an emitted record has a side with two trades of different prices,
\* the dearer one first
C4_Witness ==
    \E doc \in Emitted : \E side \in SideSet :
        /\ HasSide(doc, side)
        /\ SideOf(doc, side).count = 2
        /\ SideOf(doc, side).min_price < SideOf(doc, side).max_price
        /\ \E i, j \in Accumulated(doc.symbol, side, doc.timestamp) :
              i < j /\ history[i].price > history[j].price

----------------------------------------------------------------------------
\* a step that handles one more trade
HandlesTrade == Len(history') = Len(history) + 1

\* the trade handled by such a step
Handled == history'[Len(history')]

\* a step that handles a trade whose window start is before the open window's start
HandlesLateTrade ==
    /\ HandlesTrade
    /\ current_interval # <<>>
    /\ WindowStartOf(Handled) < current_interval[1]

(* C5: a late trade (window start strictly before the open window's start)   *)
(* is accumulated into the open window: the open interval stays, nothing is  *)
(* emitted, the trade is appended to its symbol's and side's list and every  *)
(* other list is left as it was.                                             *)
C5_LateTradeFolded ==
    [][HandlesLateTrade =>
          /\ current_interval' = current_interval
          /\ stats_sink' = stats_sink
          /\ prices_sink' = prices_sink
          /\ big_sink' = big_sink
          /\ coingecko_data' = coingecko_data
          /\ Handled.window = current_interval[1]
          /\ Handled.closed = <<>>
          /\ \A symbol \in PairSet(exchange) : \A side \in SideSet :
                transactions'[symbol][side] =
                    IF symbol = Handled.symbol /\ side = Handled.side
                       THEN Append(transactions[symbol][side],
                                   [price |-> Handled.price, quantity |-> Handled.quantity])
                       ELSE transactions[symbol][side]]_vars

\* C5 witness: a trade was accumulated into a window that starts after its own
\* window start, next to a trade that belongs to that window
C5_Witness ==
    \E i, j \in DOMAIN history :
        /\ i < j
        /\ WindowStartOf(history[j]) < history[j].window
        /\ history[i].window = history[j].window
        /\ WindowStartOf(history[i]) = history[i].window
        /\ Len(transactions[history[j].symbol][history[j].side]) >= 1
        /\ history[j].window = current_interval[1]

(* C6 (stated as claimed; violated): windows are kept per symbol, so a trade  *)
(* closes only the window of its own symbol: every trade accumulated into a   *)
(* window that a trade closed has the symbol of the closing trade.            *)
C6_WindowsPerSymbol ==
    \A i, j \in DOMAIN history :
        (history[i].closed # <<>> /\ history[j].window = history[i].closed[1])
            => history[j].symbol = history[i].symbol

----------------------------------------------------------------------------
\* 2^n
RECURSIVE Pow2(_)
Pow2(n) == IF n = 0 THEN 1 ELSE 2 * Pow2(n - 1)

\* sum over i in 0..k-1 of min(initial * 2^i, max)
RECURSIVE BackoffSum(_)
BackoffSum(k) ==
    IF k = 0 THEN 0
    ELSE BackoffSum(k - 1) + Min(initial_retry_delay * Pow2(k - 1), max_retry_delay)

Terminated == pc \in {"finally", "exited"}

(* C7 (stated as claimed; violated): after k < max_retries failed attempts   *)
(* the supervisor is still on the way to the streaming loop (it has not      *)
(* terminated), and in the streaming loop the retry count is 0, the delay is *)
(* the initial delay and the backoff slept is the sum of min(initial*2^i,    *)
(* max) over the k failures before.                                          *)
C7_ReachesStreamingAfterFailures ==
    /\ (fails < max_retries /\ exit_cause \notin {"cancelled", "malformed"}) => ~Terminated
    /\ pc = "streaming" =>
          /\ retry_count = 0
          /\ retry_delay = initial_retry_delay
          /\ slept = BackoffSum(fails)

(* Supporting C7: whenever the streaming loop is reached, the counters are   *)
(* reset and the backoff slept is the sum of C7.                             *)
C7_BackoffSumOnStreaming ==
    pc = "streaming" =>
        /\ retry_count = 0
        /\ retry_delay = initial_retry_delay
        /\ slept = BackoffSum(fails)
        /\ sleeps = fails

(* C8 (stated as claimed; violated): when every connection attempt failed,   *)
(* the supervisor terminates after exactly max_retries attempts, with one    *)
(* backoff sleep between two attempts and none after the last.               *)
C8_ExactlyMaxRetriesAttempts ==
    (Terminated /\ entries = 0 /\ exit_cause \notin {"cancelled", "malformed"})
        => (attempts = max_retries /\ sleeps = max_retries - 1)

(* Supporting C8: it holds of the exits through the retry handler.           *)
C8_AttemptsAtExhaustion ==
    (Terminated /\ entries = 0 /\ exit_cause = "max_retries")
        => (attempts = max_retries /\ sleeps = max_retries - 1)

(* C9 (stated as claimed; violated): when the retries are exhausted, main    *)
(* ends in failure.                                                          *)
C9_ExhaustionIsReported ==
    (pc = "exited" /\ exit_cause = "max_retries") => main_outcome # "normal"

(* C10 (stated as claimed; violated): the supervisor terminates because of   *)
(* a transport failure only when max_retries consecutive attempts failed.    *)
C10_TransportFailuresAreRetried ==
    (Terminated /\ exit_cause \notin {"cancelled", "malformed"}) => fails >= max_retries

----------------------------------------------------------------------------
(* C11 (stated as claimed; violated): a malformed frame, wherever it arrives *)
(* after the connection is opened, is skipped: the step that receives it     *)
(* leaves the supervisor where it was, neither backing off nor terminating,  *)
(* and leaves the retry count as it was.                                     *)
C11_MalformedFrameIsSkipped ==
    [][last_event' = "malformed" =>
          /\ pc' \notin {"sleeping", "finally", "exited"}
          /\ retry_count' = retry_count]_vars

(* Supporting C11: it holds of the frames received in the streaming loop,    *)
(* which also leave the aggregator as it was.                                *)
C11_SkippedInStreamingLoop ==
    [][(pc = "streaming" /\ last_event' = "malformed") =>
          /\ pc' = "streaming"
          /\ UNCHANGED <<retry_count, retry_delay, exit_cause>>
          /\ UNCHANGED aggVars]_vars

----------------------------------------------------------------------------
\* The calls of a log follow bulk_insert: a batch starts with an insert_many, and
\* one that failed is followed by one insert_one per document of its batch, in the
\* order of the batch, whatever each of them returned.  An update_one is neither.
RECURSIVE FallbackComplete(_)
FallbackComplete(log) ==
    IF log = <<>> THEN TRUE
    ELSE LET call == Head(log)
             n == Len(call.documents)
         IN  IF call.op = "update_one" THEN FallbackComplete(Tail(log))
             ELSE /\ call.op = "insert_many"
                  /\ IF call.ok THEN FallbackComplete(Tail(log))
                     ELSE /\ Len(log) >= 1 + n
                          /\ \A i \in 1..n :
                                /\ log[1 + i].op = "insert_one"
                                /\ log[1 + i].collection = call.collection
                                /\ log[1 + i].documents = <<call.documents[i]>>
                          /\ FallbackComplete(SubSeq(log, n + 2, Len(log)))

(* C12 (stated as claimed; violated): when the insert_many of a batch fails,  *)
(* each document of the batch is then written with one insert_one, once and   *)
(* in order, whether or not an earlier insert_one failed, and the documents   *)
(* stored are those whose write succeeded.  Stated of the states in which no  *)
(* flush is waiting for the sink.                                             *)
C12_FallbackWritesEachRecordOnce ==
    /\ stats_sink = Written(sink_log, "stats")
    /\ prices_sink = Written(sink_log, "prices")
    /\ big_sink = Written(sink_log, "big")
    /\ pending = <<>> => FallbackComplete(sink_log)

(* Supporting C12: it holds of every run in which no cancellation was         *)
(* delivered while a write of a flush was awaited, whatever the sink's fault. *)
C12_FallbackCompleteUnlessCancelled ==
    /\ stats_sink = Written(sink_log, "stats")
    /\ prices_sink = Written(sink_log, "prices")
    /\ big_sink = Written(sink_log, "big")
    /\ coingecko_data = Written(sink_log, "coingecko_data")
    /\ (pending = <<>> /\ ~interrupted) => FallbackComplete(sink_log)

----------------------------------------------------------------------------
\* the last trade handled
LastTrade == history[Len(history)]

\* the calls added to the log all failed, and there is at least one
AllWritesFailed(before, after) ==
    /\ Len(after) > Len(before)
    /\ \A k \in (Len(before) + 1)..Len(after) : ~after[k].ok

----------------------------------------------------------------------------
\* the destinations of the bulk writes of a flush
Destinations == {"stats", "prices", "big"}

\* the calls of the flush that a step ends: the writes answered before the step
\* and the one answered in it; none in a step that answers no write
EndedFlush ==
    IF sink_log' = sink_log THEN <<>>
    ELSE SubSeq(sink_log', Len(sink_log) + 1 - (IF pending = <<>> THEN 0 ELSE pending[1].done),
                Len(sink_log'))

(* C13: when a trade closes a window and every write of that window's flush   *)
(* fails (every insert_many, insert_one and update_one it awaits), the        *)
(* handler still opens the trade's window and accumulates the                 *)
(* trade into it as its only trade, nothing is stored, the supervisor stays   *)
(* in the streaming loop and the retry count and delay are unchanged.         *)
C13_SinkFailureDoesNotStopPipeline ==
    [][(last_event' = "frame" /\ AllWritesFailed(<<>>, EndedFlush)) =>
          LET h == history'[Len(history')]
          IN  /\ current_interval # <<>>
              /\ h.window > current_interval[1]
              /\ current_interval' = <<h.window>>
              /\ transactions' =
                    [EmptyBook(exchange) EXCEPT ![h.symbol][h.side] =
                        <<[price |-> h.price, quantity |-> h.quantity]>>]
              /\ UNCHANGED <<stats_sink, prices_sink, big_sink, coingecko_data>>
              /\ \A collection \in Collections : Written(EndedFlush, collection) = <<>>
              /\ pc' = "streaming"
              /\ UNCHANGED <<retry_count, retry_delay, exit_cause>>]_vars

\* C13 witness: the last frame closed a window, every write of the flush failed,
\* bulk, one by one and the update of a price, and the pipeline is in the
\* streaming loop with the trade in the open window
C13_Witness ==
    /\ pc = "streaming"
    /\ \E k \in DOMAIN sink_log : sink_log[k].op = "update_one"
    /\ \E k \in DOMAIN sink_log : sink_log[k].op = "insert_one"
    /\ last_event = "frame"
    /\ LastTrade.closed # <<>>
    /\ AllWritesFailed(<<>>, sink_log)
    /\ stats_sink = <<>>
    /\ Len(transactions[LastTrade.symbol][LastTrade.side]) = 1

----------------------------------------------------------------------------
\* the positions of the window records stored for a symbol and a window start
RecordsOf(symbol, w) ==
    {k \in DOMAIN stats_sink : stats_sink[k].symbol = symbol /\ stats_sink[k].timestamp = w}

\* after the shutdown, every symbol with trades in the window that was open has
\* exactly one window record of that window
FinalWindowEmitted ==
    \A symbol \in PairSet(exchange) :
        HasTrades(transactions[symbol])
            => Cardinality(RecordsOf(symbol, current_interval[1])) = 1

(* C14 (stated as claimed; violated): when main has ended (the sink is       *)
(* released) and a window was open, exactly one window record of that window *)
(* has been stored for every symbol that had trades in it.                   *)
C14_ShutdownFlushesOpenWindow ==
    (pc = "exited" /\ current_interval # <<>>) => FinalWindowEmitted

(* Supporting C14: it holds when no handled trade has a zero quantity and    *)
(* no flush was cut short by a cancellation.                                 *)
C14_ShutdownFlushWithoutZeroQuantity ==
    (pc = "exited" /\ current_interval # <<>> /\ ~interrupted
        /\ \A i \in DOMAIN history : history[i].quantity > 0)
        => FinalWindowEmitted

----------------------------------------------------------------------------
\* the trades handled before the i-th that went to window w of a symbol
EarlierInWindow(symbol, w, i) ==
    {j \in 1..(i - 1) : history[j].symbol = symbol /\ history[j].window = w}

\* the prices and quantities of the handled trades of a symbol and side that
\* went to window w, in the order of arrival
RECURSIVE GhostList(_, _, _, _)
GhostList(symbol, side, w, n) ==
    IF n = 0 THEN <<>>
    ELSE GhostList(symbol, side, w, n - 1)
         \o (IF n \in Accumulated(symbol, side, w)
                THEN <<[price |-> history[n].price, quantity |-> history[n].quantity]>>
                ELSE <<>>)

(* C15: the lists of the open window hold the trades in the order they were  *)
(* received; a trade that closes a window goes to a later window; and the    *)
(* record stored for the closed window counts only trades handled before the *)
(* trade that closed it.                                                     *)
C15_RecordBuiltBeforeTriggerAccumulated ==
    /\ current_interval # <<>> =>
          \A symbol \in PairSet(exchange) : \A side \in SideSet :
              transactions[symbol][side] =
                  GhostList(symbol, side, current_interval[1], Len(history))
    /\ \A i \in DOMAIN history :
          history[i].closed # <<>> =>
              /\ history[i].window > history[i].closed[1]
              /\ \A k \in DOMAIN stats_sink :
                    stats_sink[k].timestamp = history[i].closed[1]
                        => DocCount(stats_sink[k]) =
                              Cardinality(EarlierInWindow(stats_sink[k].symbol,
                                                          history[i].closed[1], i))

\* C15 witness: a trade closed a window whose record is stored, and that trade is
\* of the record's symbol
C15_Witness ==
    \E i \in DOMAIN history : \E k \in DOMAIN stats_sink :
        /\ history[i].closed # <<>>
        /\ stats_sink[k].timestamp = history[i].closed[1]
        /\ stats_sink[k].symbol = history[i].symbol
        /\ Len(transactions[history[i].symbol][history[i].side]) >= 1

----------------------------------------------------------------------------
(* C16 (stated as claimed; violated): the attempt whose subscription is      *)
(* answered with an error frame is a failed attempt: it does not end in the  *)
(* streaming loop, it adds one to the retry count instead of resetting it,   *)
(* and it ends in the backoff sleep or, with the retries used up, in the     *)
(* exit.                                                                     *)
C16_ErrorReplyFailsTheAttempt ==
    [][last_event' = "subscription_error" =>
          /\ pc' \in {"sleeping", "finally"}
          /\ retry_count' = retry_count + 1]_vars

(* C17 (stated as claimed; violated): after a receive timeout, a ping that   *)
(* is not answered takes the supervisor out of the streaming loop into the   *)
(* retry path, and a ping that is answered leaves it in the streaming loop,  *)
(* in both clients.                                                          *)
C17_PingConfirmsConnection ==
    [][/\ last_event' = "no_pong" =>
             (pc' \in {"sleeping", "finally"} /\ retry_count' = retry_count + 1)
       /\ last_event' = "pong" =>
             (pc' = "streaming" /\ retry_count' = retry_count)]_vars

(* Supporting C17: it holds of the Binance client.                           *)
C17_BinancePingConfirmsConnection ==
    [][exchange = "binance" =>
          /\ last_event' = "no_pong" =>
                (pc' \in {"sleeping", "finally"} /\ retry_count' = retry_count + 1)
          /\ last_event' = "pong" =>
                (pc' = "streaming" /\ retry_count' = retry_count)]_vars

(* C18: in the streaming loop the retry count is 0 and the delay is the      *)
(* initial delay; while the supervisor retries, the retry count is the       *)
(* number of failures since the last entry into the streaming loop, so the   *)
(* first retry after a drop sleeps the initial delay; and the supervisor     *)
(* gives up for exhaustion only with max_retries failures since the last     *)
(* entry into the streaming loop.                                            *)
C18_OnlyConsecutiveFailuresCount ==
    /\ pc = "streaming" => (retry_count = 0 /\ retry_delay = initial_retry_delay)
    /\ pc \in {"sleeping", "connecting"} => retry_count = fails
    /\ (pc = "sleeping" /\ fails = 1) => retry_delay = initial_retry_delay
    /\ exit_cause = "max_retries" => (fails = max_retries /\ retry_count = max_retries)

\* C18 witness: the supervisor gave up for exhaustion after it had been in the
\* streaming loop, having made more than max_retries attempts in all
C18_Witness ==
    /\ exit_cause = "max_retries"
    /\ entries >= 1
    /\ attempts > max_retries

----------------------------------------------------------------------------
\* close() has had an answer from the sink, or main has ended
ShutdownFlushBegun == pc = "exited" \/ (pc = "finally" /\ pending # <<>>)

(* C19 (stated as claimed; violated): once the three trades of the example   *)
(* are handled by the client as it is constructed, and before any shutdown   *)
(* flush,                                                                    *)
(* one window record is stored, of BTCUSDT and the window that starts at     *)
(* second 0, with buy count 1 and value 500 and sell count 1 and value 15003 *)
(* (values in 1/QuantityUnit); the sell trade is the one big transaction     *)
(* recorded; and the open window starts at second 10 and holds the third     *)
(* trade only.                                                               *)
C19_EndToEndExample ==
    (Len(history) = Len(ExampleTrades) /\ ~ShutdownFlushBegun) =>
        /\ Len(stats_sink) = 1
        /\ stats_sink[1].symbol = "BTCUSDT"
        /\ stats_sink[1].timestamp = 0
        /\ HasSide(stats_sink[1], "buy") /\ HasSide(stats_sink[1], "sell")
        /\ stats_sink[1].buy_count = 1
        /\ stats_sink[1].buy_total_value = 500 * QuantityUnit
        /\ stats_sink[1].sell_count = 1
        /\ stats_sink[1].sell_total_value = 15003 * QuantityUnit
        /\ Len(big_sink) = 1
        /\ big_sink[1].side = "sell"
        /\ big_sink[1].value = 15003 * QuantityUnit
        /\ current_interval = <<10>>
        /\ transactions =
              [EmptyBook(exchange) EXCEPT !["BTCUSDT"]["buy"] =
                  <<[price |-> 50020, quantity |-> 1]>>]
        /\ big_transactions = EmptyBook(exchange)

(* Supporting C19: what the code does with the example: it stores one record  *)
(* for second 3 (the buy) and one for second 7 (the sell), and the open       *)
(* window starts at second 12.                                                *)
C19_ExampleInOneSecondWindows ==
    (Len(history) = Len(ExampleTrades) /\ ~ShutdownFlushBegun) =>
        /\ Len(stats_sink) = 2
        /\ stats_sink[1].timestamp = 3 /\ stats_sink[1].buy_count = 1
        /\ stats_sink[1].buy_total_value = 500 * QuantityUnit
        /\ stats_sink[2].timestamp = 7 /\ stats_sink[2].sell_count = 1
        /\ stats_sink[2].sell_total_value = 15003 * QuantityUnit
        /\ Len(big_sink) = 1 /\ big_sink[1].side = "sell"
        /\ current_interval = <<12>>

----------------------------------------------------------------------------
\* the number of timestamp units of the exchange in a second
UnitsPerSecond(ex) == IF ex = "binance" THEN 1000 ELSE 1000000000

\* the handled trades whose own interval start became the current interval
OpenedWindow == {i \in DOMAIN history : i = 1 \/ history[i].closed # <<>>}

(* C20 (stated as claimed; violated): the window start of a trade is the     *)
(* largest multiple of interval_seconds that is not after the trade's event  *)
(* time, and truncating a window start gives that window start.              *)
C20_WindowStartIsTruncation ==
    \A i \in OpenedWindow :
        LET w == history[i].window
            second == history[i].time \div UnitsPerSecond(exchange)
        IN  /\ w % interval_seconds = 0
            /\ w <= second
            /\ second < w + interval_seconds
            /\ w <= 2 =>
                  IntervalStart(TransactionTime(exchange, w * UnitsPerSecond(exchange))) = w

(* Supporting C20: the Binance client truncates to the second (a window size *)
(* of 1 s), idempotently.                                                    *)
C20_BinanceTruncatesToSecond ==
    exchange = "binance" =>
        \A i \in OpenedWindow :
            /\ history[i].window = history[i].time \div UnitsPerSecond(exchange)
            /\ IntervalStart(TransactionTime(exchange,
                   history[i].window * UnitsPerSecond(exchange))) = history[i].window

----------------------------------------------------------------------------
(* The metrics registry: the updates of lines 136-138 and 142 *)
MetricsFaults == {"update", "big_counter"}

\* lines 66-70: a trade frame is handled while an update of the metrics raises
ReceiveMetricsFailure(message, metrics) ==
    /\ Len(history) < MaxTrades
    /\ ReceiveTrade(message, NoFault, metrics)

\* The aggregator with a metrics registry that may fail
NextMetrics ==
    \/ \E reply \in SubscriptionReplies : ConnectSucceeds(reply)
    \/ \E message \in SinkFrames(exchange) : ReceiveFrame(message)
    \/ \E message \in SinkFrames(exchange) : \E metrics \in MetricsFaults :
          ReceiveMetricsFailure(message, metrics)
    \/ \E metrics \in {"none"} \cup MetricsFaults : SinkAnswers(metrics)
    \/ \E carried \in BOOLEAN : CancelDuringFlush(carried)
    \/ Cancel
    \/ Close
    \/ \E carried \in BOOLEAN : CloseCancelled(carried)

SpecMetrics == Init /\ [][NextMetrics]_vars

\* the last trade accumulated is the last entry of its list of the open window
LastTradeCounted ==
    LET t == history[Len(history)]
        trades == transactions[t.symbol][t.side]
    IN  /\ current_interval = <<t.window>>
        /\ trades # <<>>
        /\ trades[Len(trades)] = [price |-> t.price, quantity |-> t.quantity]

\* the last trade accumulated has its entry at the end of the pending big list
LastTradePendingBig ==
    LET t == history[Len(history)]
        bigs == big_transactions[t.symbol][t.side]
    IN  bigs # <<>> /\ bigs[Len(bigs)] = GhostBigEntry(Len(history))

(* C21 (stated as claimed; violated): when an update of the metrics fails     *)
(* while a trade is handled, the trade is still counted in its window, it is  *)
(* still recorded as a pending BigTransaction if its value is at or above the *)
(* threshold, and the pipeline stays in the streaming loop.                   *)
C21_MetricsFailureKeepsTrade ==
    last_event = "metrics_failed" =>
        /\ pc = "streaming"
        /\ LastTradeCounted
        /\ IsBigTransaction(history[Len(history)].price * history[Len(history)].quantity)
              => LastTradePendingBig

(* Supporting C21: a failure of the metrics never loses the trade itself nor  *)
(* stops the streaming loop; what it loses is the BigTransaction entry.       *)
C21_MetricsFailureKeepsWindowCount ==
    last_event = "metrics_failed" => (pc = "streaming" /\ LastTradeCounted)

----------------------------------------------------------------------------
(* The flush as the awaits it is made of: handle_message is suspended at line *)
(* 124 in a write of process_and_store_data until the sink answers.  The      *)
(* client is built with AsyncIOMotorClient(MONGO_URI) and the writes are      *)
(* awaited without wait_for: no step of the program ends the wait.            *)
\* The aggregator on a sink that may be slow to answer, or never answer
NextBlocking ==
    \/ \E reply \in SubscriptionReplies : ConnectSucceeds(reply)
    \/ \E message \in SinkFrames(exchange) : \E fault \in Faults :
          ReceiveFrameWith(message, fault)
    \/ SinkAnswers("none")

\* the steps that do not wait for the sink: the connection is made, a frame
\* arrives and the handler runs to its first write or to its end
WithoutTheSink ==
    \/ \E reply \in SubscriptionReplies : ConnectSucceeds(reply)
    \/ \E message \in SinkFrames(exchange) : \E fault \in Faults :
          ReceiveFrameWith(message, fault)

\* the event loop runs every step that does not wait for the sink; nothing obliges
\* the sink to answer
SpecBlocking == Init /\ [][NextBlocking]_vars /\ WF_vars(WithoutTheSink)

\* the same on a sink that answers every write it is sent
SpecAnswering == SpecBlocking /\ WF_vars(SinkAnswers("none"))

(* C22 (stated as claimed; violated): a flush that is waiting for the sink    *)
(* always comes to an end, whether or not the sink answers: the dispatch      *)
(* returns after a bounded wait and the trade that closed the window is       *)
(* accumulated.                                                               *)
C22_DispatchReturns ==
    (pending # <<>>) ~> (pending = <<>> /\ last_event = "frame")

(* Supporting C22 (under SpecAnswering): when the sink answers every write,   *)
(* with or without failures, the handler goes on and the trade that closed    *)
(* the window is accumulated.                                                 *)
C22_ReturnsOnceSinkAnswered ==
    (pending # <<>>) ~> (pending = <<>> /\ last_event = "frame")

----------------------------------------------------------------------------
(* tests/test_transaction_stats.py: analyze_pair_transactions *)
\* timedelta(seconds=10): the interval the test expects between two records
ExpectedIntervalSeconds == 10

\* the timestamps of the stored records of a pair from start_time to end_time,
\* both included (find_many of the test's query)
TimestampsOf(pair, start_time, end_time) ==
    {stats_sink[i].timestamp :
        i \in {k \in DOMAIN stats_sink :
                  /\ stats_sink[k].symbol = pair
                  /\ stats_sink[k].timestamp >= start_time
                  /\ stats_sink[k].timestamp <= end_time}}

\* the time ranges the test is run over: from start_time to end_time, in seconds
TimeRanges == {range \in {0, 1, 12, 20} \X {0, 1, 12, 20} : range[1] <= range[2]}

\* transactions.sort(key=lambda x: x["timestamp"]), on the timestamps
RECURSIVE SortedTimestamps(_)
SortedTimestamps(S) ==
    IF S = {} THEN <<>>
    ELSE LET first == CHOOSE t \in S : \A u \in S : t <= u
         IN  <<first>> \o SortedTimestamps(S \ {first})

\* the while loop of the test: the intervals missing between the expected
\* timestamp and the timestamp of the next record
RECURSIVE MissingBetween(_, _)
MissingBetween(expected_timestamp, timestamp) ==
    IF expected_timestamp + ExpectedIntervalSeconds < timestamp
        THEN 1 + MissingBetween(expected_timestamp + ExpectedIntervalSeconds, timestamp)
        ELSE 0

\* missing_intervals of the test, over the sorted timestamps
RECURSIVE MissingIntervals(_)
MissingIntervals(timestamps) ==
    IF Len(timestamps) < 2 THEN 0
    ELSE MissingBetween(timestamps[1], timestamps[2]) + MissingIntervals(Tail(timestamps))

(* C23 (stated as claimed; violated): for every pair and every time range,   *)
(* the records stored in the range have no missing interval: sorted by       *)
(* timestamp, each record is at most one interval of 10 seconds after the    *)
(* record before it, whatever the sequence of trades.                        *)
C23_NoMissingInterval ==
    \A pair \in PairSet(exchange) : \A range \in TimeRanges :
        MissingIntervals(SortedTimestamps(TimestampsOf(pair, range[1], range[2]))) = 0

(* Supporting C23: a record is stored only for a window that holds a trade of *)
(* the pair, so the distance between two records is the distance between the  *)
(* windows of two trades.                                                     *)
C23_RecordsOnlyForWindowsWithTrades ==
    \A doc \in Emitted :
        \E i \in DOMAIN history :
            history[i].symbol = doc.symbol /\ history[i].window = doc.timestamp

----------------------------------------------------------------------------
(* Trades, connection drops and sink failures together *)
MaxEntries == 2

\* trades of both pairs below the threshold, in two seconds: in order, late and
\* duplicated
ReconnectFrames(ex) ==
    IF ex = "binance"
        THEN {f \in BinanceFrames : f.p = 6000 /\ f.q = 100 /\ ~f.m /\ f.T >= 1000}
        ELSE {f \in KucoinFrames :
                 /\ f.data.price = 6000 /\ f.data.size = 100 /\ f.data.side = BuyText
                 /\ f.data.time >= 1000000000}

\* line 68: recv raises ConnectionClosed; the retry handler reconnects
Drop ==
    /\ entries < MaxEntries
    /\ StreamFails("ConnectionClosed")

\* a trade frame arrives, on a sink with the given fault; one trade more than
\* MaxTrades is handled, so that a late or a duplicated trade follows an emission
ReceiveReconnectFrame(message, fault) ==
    /\ Len(history) < MaxTrades + 1
    /\ ReceiveTrade(message, fault, "none")

\* The pipeline over trades, drops of the connection and a sink that works or
\* whose every call raises
NextReconnect ==
    \/ \E reply \in SubscriptionReplies : ConnectSucceeds(reply)
    \/ Drop
    \/ Backoff
    \/ \E message \in ReconnectFrames(exchange) :
          \E fault \in {NoFault, [mode |-> "all", where |-> Collections]} :
              ReceiveReconnectFrame(message, fault)
    \/ SinkAnswers("none")
    \/ \E carried \in BOOLEAN :
          pending # <<>> /\ pending[1].fault = NoFault /\ CancelDuringFlush(carried)
    \/ Cancel
    \/ \E fault \in {NoFault, [mode |-> "all", where |-> Collections]} : CloseWith(fault)
    \/ \E carried \in BOOLEAN : CloseCancelled(carried)

SpecReconnect == Init /\ [][NextReconnect]_vars

\* the batches of window records handed to the sink, in order
StatsBatches ==
    SelectSeq(sink_log, LAMBDA call : call.collection = "stats" /\ call.op = "insert_many")

\* for each symbol the window starts of the window records strictly increase, in
\* the order they are handed to the sink and in the order they are stored
WindowStartsIncrease ==
    /\ \A i, j \in DOMAIN stats_sink :
          (i < j /\ stats_sink[i].symbol = stats_sink[j].symbol)
              => stats_sink[i].timestamp < stats_sink[j].timestamp
    /\ \A i, j \in DOMAIN StatsBatches :
          \A a \in DOMAIN StatsBatches[i].documents :
              \A b \in DOMAIN StatsBatches[j].documents :
                  LET first == StatsBatches[i].documents[a]
                      second == StatsBatches[j].documents[b]
                  IN  (first.symbol = second.symbol /\ (i < j \/ (i = j /\ a < b)))
                          => first.timestamp < second.timestamp

(* C24 (stated as claimed; violated): for each symbol the window starts of    *)
(* the emitted window records are strictly increasing, over trades in order,  *)
(* late and duplicated, drops of the connection and failures of the sink; so  *)
(* no (symbol, windowStart) is emitted twice.                                 *)
C24_WindowStartsStrictlyIncrease == WindowStartsIncrease

(* Supporting C24: it holds of every run in which no cancellation was         *)
(* delivered while a write of a flush was awaited.                            *)
C24_StrictlyIncreaseUnlessCut == ~interrupted => WindowStartsIncrease

----------------------------------------------------------------------------
\* the document process_and_store_data is expected to build for a big trade
GhostBigDocument(i) ==
    [timestamp |-> TransactionTime(exchange, history[i].time), symbol |-> history[i].symbol,
     side |-> history[i].side, price |-> history[i].price,
     quantity |-> history[i].quantity,
     value |-> history[i].price * history[i].quantity, source |-> Source(exchange)]

IsBigTrade(i) == IsBigTransaction(history[i].price * history[i].quantity)

\* the index in the log of the last batch of window records before call k, or 0
StatsBatchBefore(k) ==
    LET S == {j \in 1..(k - 1) :
                 sink_log[j].collection = "stats" /\ sink_log[j].op = "insert_many"}
    IN  IF S = {} THEN 0 ELSE CHOOSE j \in S : \A l \in S : l <= j

\* every batch of big transactions follows, in its flush, the batch of window
\* records of the window its trades were accumulated into
BigBatchFollowsItsWindow ==
    \A k \in DOMAIN sink_log :
        (sink_log[k].collection = "big" /\ sink_log[k].op = "insert_many") =>
            /\ StatsBatchBefore(k) # 0
            /\ \A d \in DOMAIN sink_log[k].documents :
                  \E i \in DOMAIN history :
                      /\ IsBigTrade(i)
                      /\ GhostBigDocument(i) = sink_log[k].documents[d]
                      /\ history[i].window =
                            sink_log[StatsBatchBefore(k)].documents[1].timestamp

\* every big trade handled has its document stored as often as it was handled
EveryBigTradeStoredOnce ==
    \A i \in DOMAIN history :
        IsBigTrade(i) =>
            Cardinality({k \in DOMAIN big_sink : big_sink[k] = GhostBigDocument(i)})
                = Cardinality({j \in DOMAIN history :
                                  IsBigTrade(j) /\ GhostBigDocument(j) = GhostBigDocument(i)})

(* C25 (stated as claimed; violated): once the pipeline has shut down, every  *)
(* big trade was dispatched exactly once, and each batch of big transactions  *)
(* was dispatched in the flush of the window its trades were accumulated      *)
(* into, after that window's records and never in a later flush.              *)
C25_BigTransactionDispatchedOnce ==
    /\ BigBatchFollowsItsWindow
    /\ pc = "exited" => EveryBigTradeStoredOnce

(* Supporting C25: unless a cancellation cut a flush short, a big trade is    *)
(* never dispatched twice, and when no trade has quantity 0 every big trade   *)
(* is dispatched exactly once; in every case a batch of big transactions      *)
(* follows the records of its window, never those of a later one.             *)
C25_DispatchedOnceWithoutZeroQuantity ==
    /\ BigBatchFollowsItsWindow
    /\ \A i \in DOMAIN history :
          (~interrupted /\ IsBigTrade(i)) =>
              Cardinality({k \in DOMAIN big_sink : big_sink[k] = GhostBigDocument(i)})
                  <= Cardinality({j \in DOMAIN history :
                                    IsBigTrade(j) /\ GhostBigDocument(j) = GhostBigDocument(i)})
    /\ (pc = "exited" /\ ~interrupted /\ \A i \in DOMAIN history : history[i].quantity > 0)
          => EveryBigTradeStoredOnce

\* the flush of the open window has a batch for the destination
HasBatch(collection) ==
    CASE collection = "stats" ->
            \E symbol \in PairSet(exchange) : HasTrades(transactions[symbol])
      [] collection = "prices" ->
            /\ exchange = "binance"
            /\ \E symbol \in PairSet(exchange) : HasTrades(transactions[symbol])
      [] collection = "big" ->
            \E symbol \in PairSet(exchange) : \E side \in SideSet :
                big_transactions[symbol][side] # <<>>

\* the bulk writes to a destination among the calls of a log
BulkWrites(calls, collection) ==
    {k \in DOMAIN calls : calls[k].collection = collection /\ calls[k].op = "insert_many"}

\* the window of the batch of call k: a batch of big transactions belongs to the
\* window of the records written before it
WindowOfCall(k) ==
    IF sink_log[k].collection = "big"
    THEN IF StatsBatchBefore(k) = 0 THEN <<>>
         ELSE <<sink_log[StatsBatchBefore(k)].documents[1].timestamp>>
    ELSE <<sink_log[k].documents[1].timestamp>>

\* no destination gets two bulk writes for one window
OneBulkWritePerWindow ==
    \A collection \in Destinations :
        \A k, j \in BulkWrites(sink_log, collection) :
            WindowOfCall(k) = WindowOfCall(j) => k = j

(* C26 (stated as claimed; violated): for each closed window there is at most *)
(* one bulk write per destination.                                            *)
C26_AtMostOneBulkWritePerWindow ==
    OneBulkWritePerWindow

(* Supporting C26: unless a cancellation cut a flush short, no destination    *)
(* gets two bulk writes for one window.                                       *)
C26_OneBulkWritePerWindowUnlessCut ==
    ~interrupted => OneBulkWritePerWindow

(* Supporting C26: a flush that comes to its end (no cancellation cuts it      *)
(* short) has made exactly one bulk write to each destination that has a      *)
(* batch and none to the others, whether or not the writes to another         *)
(* destination failed.                                                        *)
C26_OneBulkWritePerDestination ==
    [][(EndedFlush # <<>> /\ pending' = <<>>
           /\ last_event' \notin {"cancelled_in_flush", "close_cancelled"}) =>
          \A collection \in Destinations :
              Cardinality(BulkWrites(EndedFlush, collection))
                  = IF HasBatch(collection) THEN 1 ELSE 0]_vars

\* every write of the window records failed, bulk and one by one, and the bulk
\* write of the big transactions was attempted after them
C26_Witness ==
    \E k \in DOMAIN sink_log : \E j \in DOMAIN sink_log :
        /\ k < j
        /\ sink_log[k].collection = "stats" /\ sink_log[k].op = "insert_one"
        /\ ~sink_log[k].ok
        /\ sink_log[j].collection = "big" /\ sink_log[j].op = "insert_many"
        /\ \A l \in 1..k : sink_log[l].collection = "stats" /\ ~sink_log[l].ok

----------------------------------------------------------------------------
\* the windows that were closed: by a later trade, or by the shutdown flush
ClosedWindows ==
    {history[i].closed[1] : i \in {k \in DOMAIN history : history[k].closed # <<>>}}
        \cup (IF pc = "exited" /\ current_interval # <<>> THEN {current_interval[1]} ELSE {})

\* the windows whose flush came to its end: closed by a later trade, or by a
\* close() that returned
FlushedWindows ==
    {history[i].closed[1] : i \in {k \in DOMAIN history : history[k].closed # <<>>}}
        \cup (IF pc = "exited" /\ last_event = "closed" /\ current_interval # <<>>
                 THEN {current_interval[1]} ELSE {})

\* no side of window w with trades has quantities that add up to 0
NoZeroQuantitySide(w) ==
    \A symbol \in PairSet(exchange) : \A side \in SideSet :
        Accumulated(symbol, side, w) # {} => GhostQuantity(Accumulated(symbol, side, w)) > 0

(* C27: an emitted window record has the fields of a side exactly when trades  *)
(* were accumulated on that side, and it has at least one side, so a symbol    *)
(* without trades has no record; and no division is made for a side without    *)
(* trades: a window whose sides with trades have a positive quantity has,     *)
(* once its flush has come to its end, a record for every symbol with trades, *)
(* whatever sides are empty.                                                   *)
C27_EmptySideHasNoFields ==
    /\ \A doc \in Emitted :
          /\ \A side \in SideSet :
                /\ HasSide(doc, side) <=> Accumulated(doc.symbol, side, doc.timestamp) # {}
                /\ HasSide(doc, side) =>
                      SideOf(doc, side).count
                          = Cardinality(Accumulated(doc.symbol, side, doc.timestamp))
          /\ HasSide(doc, "buy") \/ HasSide(doc, "sell")
    /\ \A w \in FlushedWindows :
          NoZeroQuantitySide(w) =>
              \A symbol \in PairSet(exchange) :
                  (\E side \in SideSet : Accumulated(symbol, side, w) # {})
                      <=> (\E doc \in Emitted : doc.symbol = symbol /\ doc.timestamp = w)

\* a window was closed with trades on one side of one symbol only: its record
\* has that side and not the other, and the other symbol has no record
C27_Witness ==
    /\ pc = "exited" /\ last_event = "closed"
    /\ Len(history) = MaxTrades
    /\ Len(stats_sink) = 1
    /\ HasSide(stats_sink[1], "sell") /\ ~HasSide(stats_sink[1], "buy")
    /\ stats_sink[1].sell_count = MaxTrades

----------------------------------------------------------------------------
\* the symbol has trades in window w and none of its sides with trades has
\* quantities that add up to 0
HasSoundTrades(symbol, w) ==
    /\ \E side \in SideSet : Accumulated(symbol, side, w) # {}
    /\ \A side \in SideSet :
          Accumulated(symbol, side, w) # {}
              => GhostQuantity(Accumulated(symbol, side, w)) > 0

\* the big trades accumulated into window w all have their document stored
BigTradesDispatched(w) ==
    \A i \in DOMAIN history :
        (history[i].window = w /\ IsBigTrade(i))
            => \E k \in DOMAIN big_sink : big_sink[k] = GhostBigDocument(i)

(* C28 (stated as claimed; violated): closing a window is isolated per record: *)
(* whatever trades of quantity 0 the window holds, every symbol whose own      *)
(* sides have a positive quantity gets its record dispatched, and every        *)
(* pending BigTransaction of the window is dispatched.                         *)
C28_WindowCloseIsolatedPerRecord ==
    \A w \in ClosedWindows :
        /\ \A symbol \in PairSet(exchange) :
              HasSoundTrades(symbol, w)
                  => \E doc \in Emitted : doc.symbol = symbol /\ doc.timestamp = w
        /\ BigTradesDispatched(w)

(* Supporting C28: a closed window none of whose sides has quantities that    *)
(* add up to 0 has the record of every symbol with trades and all its big     *)
(* transactions dispatched, when no cancellation cut a flush short.           *)
C28_WindowClosedWithoutZeroQuantity ==
    \A w \in ClosedWindows :
        (~interrupted /\ NoZeroQuantitySide(w)) =>
            /\ \A symbol \in PairSet(exchange) :
                  HasSoundTrades(symbol, w)
                      => \E doc \in Emitted : doc.symbol = symbol /\ doc.timestamp = w
            /\ BigTradesDispatched(w)

----------------------------------------------------------------------------
(* Frames handle_message rejects *)
\* well-formed trade frames of a pair that is not subscribed and, for KuCoin, of
\* a side that is neither buy nor sell
RejectedFrames(ex) ==
    IF ex = "binance"
        THEN {[e |-> "trade", s |-> "XRPUSDT", p |-> 5000, q |-> 200, T |-> t, m |-> FALSE] :
                 t \in BinanceTimes}
        ELSE {[type |-> "message", subject |-> "trade.l3match",
               data |-> [symbol |-> sd[1], price |-> 5000, size |-> 200, time |-> t,
                         side |-> sd[2]]] :
                 sd \in {<<"XRP-USDT", BuyText>>, <<"BTC-USDT", <<"H", "O", "L", "D">>>>},
                 t \in KucoinTimes}

\* lines 66-70: a trade frame arrives that handle_message rejects at line 128
ReceiveRejected(message) == ReceiveTrade(message, NoFault, "none")

\* frames whose fields are missing or cannot be parsed
MalformedFields == {"missing_field", "unparseable_field"}

\* The aggregator over trade frames, rejected frames and malformed frames
NextRejected ==
    \/ \E reply \in SubscriptionReplies : ConnectSucceeds(reply)
    \/ \E message \in SinkFrames(exchange) : ReceiveFrame(message)
    \/ \E message \in RejectedFrames(exchange) : ReceiveRejected(message)
    \/ \E kind \in MalformedFields : ReceiveMalformed(kind)
    \/ SinkAnswers("none")
    \/ \E carried \in BOOLEAN : CancelDuringFlush(carried)
    \/ Cancel
    \/ Close
    \/ \E carried \in BOOLEAN : CloseCancelled(carried)

SpecRejected == Init /\ [][NextRejected]_vars

(* C29 (stated as claimed; violated): a frame that is rejected (a trade of a   *)
(* pair that is not subscribed, a side other than buy or sell, a missing or    *)
(* unparseable field) leaves the current interval, the lists of trades and     *)
(* the pending big transactions unchanged, and closes and emits no window.     *)
C29_RejectedFrameChangesNothing ==
    [][last_event' \in {"rejected", "malformed"} =>
          UNCHANGED <<current_interval, transactions, big_transactions, stats_sink,
                      prices_sink, big_sink, coingecko_data, sink_log>>]_vars

(* Supporting C29: a frame with a missing or unparseable field changes         *)
(* nothing, and so does a rejected trade whose interval is not later than the  *)
(* open window; no rejected frame is ever accumulated.                         *)
C29_RejectedInOpenWindowChangesNothing ==
    [][/\ last_event' = "malformed" =>
             UNCHANGED <<current_interval, transactions, big_transactions, stats_sink,
                         prices_sink, big_sink, coingecko_data, sink_log>>
       /\ (last_event' = "rejected" /\ current_interval # <<>>
             /\ current_interval' = current_interval) =>
             UNCHANGED <<transactions, big_transactions, stats_sink, prices_sink,
                         big_sink, coingecko_data, sink_log>>
       /\ last_event' = "rejected" => UNCHANGED history]_vars

----------------------------------------------------------------------------
\* the number of trades in all the lists of the open window
OpenTrades ==
    IF transactions = <<>> THEN 0
    ELSE LET Count(symbol) == Len(transactions[symbol]["buy"])
                                + Len(transactions[symbol]["sell"])
         IN  Count(Pairs(exchange)[1]) + Count(Pairs(exchange)[2])

(* C30: the Binance normalizer maps m = true (the buyer is the maker) to the   *)
(* sell side and m = false to the buy side, and the trade is added to the list *)
(* of that side of its symbol only: it is the last entry of that list, and the *)
(* lists of the window it went to then hold one trade more than before.        *)
C30_BinanceSideFromMakerFlag ==
    /\ exchange = "binance" =>
          \A i \in DOMAIN history :
              /\ history[i].symbol = history[i].frame.s
              /\ history[i].side = (IF history[i].frame.m THEN "sell" ELSE "buy")
    /\ (exchange = "binance" /\ last_event = "frame" /\ history # <<>>) =>
          LET t == history[Len(history)]
              trades == transactions[t.symbol][IF t.frame.m THEN "sell" ELSE "buy"]
          IN  /\ trades # <<>>
              /\ trades[Len(trades)] = [price |-> t.frame.p, quantity |-> t.frame.q]
              /\ OpenTrades = Cardinality({j \in DOMAIN history : history[j].window = t.window})

\* a trade with m = true and a trade with m = false of one symbol and window
\* are in the sell list and in the buy list
C30_Witness ==
    /\ exchange = "binance"
    /\ last_event = "frame"
    /\ Len(history) = 2
    /\ history[1].frame.m /\ ~history[2].frame.m
    /\ history[1].symbol = history[2].symbol
    /\ Len(transactions[history[1].symbol]["sell"]) = 1
    /\ Len(transactions[history[1].symbol]["buy"]) = 1

----------------------------------------------------------------------------
(* Shutdown while a flush is in flight.  A cancellation is delivered at the    *)
(* await of one of the writes of process_and_store_data; CancelledError is not *)
(* an Exception, so no handler of bulk_insert, process_and_store_data,         *)
(* handle_message or connect catches it and it reaches the finally block of    *)
(* main with current_interval and the lists as they were before the flush.     *)
\* The aggregator with a shutdown that may come at any await
NextShutdown ==
    \/ \E reply \in SubscriptionReplies : ConnectSucceeds(reply)
    \/ \E message \in SinkFrames(exchange) : ReceiveFrame(message)
    \/ SinkAnswers("none")
    \/ \E carried \in BOOLEAN : CancelDuringFlush(carried)
    \/ Cancel
    \/ Close
    \/ \E carried \in BOOLEAN : CloseCancelled(carried)

SpecShutdown == Init /\ [][NextShutdown]_vars

\* the stored window records of one symbol and window start
StoredRecords(symbol, w) ==
    {k \in DOMAIN stats_sink : stats_sink[k].symbol = symbol /\ stats_sink[k].timestamp = w}

(* C31 (stated as claimed; violated): a window is emitted to the sink at most  *)
(* once, also when the pipeline is cancelled while the flush of a closing      *)
(* window is in flight: the shutdown flush does not dispatch the records of    *)
(* that window a second time.                                                  *)
C31_WindowEmittedAtMostOnce ==
    \A doc \in Emitted : Cardinality(StoredRecords(doc.symbol, doc.timestamp)) <= 1

(* Supporting C31: only the window whose flush the cancellation interrupted    *)
(* is emitted again, by the shutdown flush, and no window more than twice.     *)
C31_OnlyInterruptedWindowEmittedTwice ==
    \A doc \in Emitted :
        /\ Cardinality(StoredRecords(doc.symbol, doc.timestamp)) <= 2
        /\ Cardinality(StoredRecords(doc.symbol, doc.timestamp)) = 2
              => (interrupted /\ pc \in {"finally", "exited"}
                    /\ current_interval = <<doc.timestamp>>)

----------------------------------------------------------------------------
\* the steps of a reconnect cycle: the connection drops, the backoff sleep, the
\* new connection and subscription
ReconnectEvents == {"stream_failed", "slept", "subscribed", "subscription_error"}

\* the event time of a handled trade falls into window w
FallsInto(t, w) == IntervalStart(TransactionTime(exchange, t.time)) = w

(* C32: no step of a disconnect and reconnect changes the open window (current *)
(* interval, accumulated trades, pending big transactions) or writes to the    *)
(* sink; and the first trade received after a reconnection, when its window    *)
(* start is that of the open window, is appended to the lists of that window,  *)
(* which is not flushed.                                                       *)
C32_ReconnectKeepsOpenWindow ==
    [][/\ last_event' \in ReconnectEvents =>
             UNCHANGED <<current_interval, transactions, big_transactions, stats_sink,
                         prices_sink, big_sink, coingecko_data, sink_log>>
       /\ (/\ entries >= 2
           /\ last_event \in {"subscribed", "subscription_error"}
           /\ last_event' = "frame"
           /\ current_interval # <<>>
           /\ FallsInto(history'[Len(history')], current_interval[1])) =>
             LET t == history'[Len(history')]
             IN  /\ current_interval' = current_interval
                 /\ transactions' =
                       [transactions EXCEPT ![t.symbol][t.side] =
                           Append(@, [price |-> t.price, quantity |-> t.quantity])]
                 /\ big_transactions' =
                       IF IsBigTransaction(t.price * t.quantity)
                          THEN [big_transactions EXCEPT ![t.symbol][t.side] =
                                   Append(@, [price |-> t.price, quantity |-> t.quantity,
                                              value |-> t.price * t.quantity,
                                              timestamp |->
                                                  TransactionTime(exchange, t.time)])]
                          ELSE big_transactions
                 /\ UNCHANGED <<stats_sink, prices_sink, big_sink, coingecko_data, sink_log>>]_vars

\* a trade was accumulated before the connection dropped and a trade of the
\* same second and list after the reconnection: the list holds both
C32_Witness ==
    /\ Len(history) = 2
    /\ history[1].entry = 1 /\ history[2].entry = 2
    /\ history[1].symbol = history[2].symbol /\ history[1].side = history[2].side
    /\ FallsInto(history[2], history[1].window)
    /\ current_interval = <<history[1].window>>
    /\ Len(transactions[history[1].symbol][history[1].side]) = 2
    /\ sink_log = <<>>

----------------------------------------------------------------------------
(* C33: in every state of the supervisor 0 <= retry_count <= max_retries and   *)
(* initial_retry_delay <= retry_delay <= max_retry_delay, and at the start of  *)
(* each connection attempt retry_delay = min(initial_retry_delay *             *)
(* 2^retry_count, max_retry_delay).                                            *)
C33_RetryStateInBounds ==
    /\ 0 <= retry_count /\ retry_count <= max_retries
    /\ initial_retry_delay <= retry_delay /\ retry_delay <= max_retry_delay
    /\ pc = "connecting" =>
          retry_delay = Min(initial_retry_delay * Pow2(retry_count), max_retry_delay)

\* an attempt starts after enough failures in a row for the cap to apply, and
\* one starts after a reconnection has reset both
C33_Witness ==
    /\ pc = "connecting"
    /\ retry_count = max_retries - 1
    /\ retry_delay = max_retry_delay
    /\ initial_retry_delay * Pow2(retry_count) > max_retry_delay
    /\ entries >= 1

----------------------------------------------------------------------------
(***************************************************************************)
(* The order book manager (binance/order_book.py).  A depth update is the  *)
(* pair of its first and final update id, U and u; the order book is the   *)
(* snapshot it was loaded from and the updates applied to it since, in     *)
(* order, which determine its price levels.  Every await of                *)
(* manage_order_book is a position of book_pc.                             *)
(***************************************************************************)
MaxUpdateId == 4
MaxFetches == 3
MaxReceived == 3

UpdateIds == 1..MaxUpdateId
DepthUpdates == {update \in [U : UpdateIds, u : UpdateIds] : update.U <= update.u}

\* apply_update: the price levels of the update overwrite those of the book
apply_update(book, update) == [book EXCEPT !.updates = Append(@, update)]

\* apply_update raises at a level that is not a pair of numbers: the levels
\* before it are written, if there are any
apply_update_raises(book, update, written) ==
    IF written THEN [book EXCEPT !.partial = Append(@, update)] ELSE book

\* the first test of the receive loop: the update covers last_update_id + 1
CoversNext(update) == update.U <= last_update_id + 1 /\ update.u >= last_update_id + 1

\* first_update after the first test
FirstUpdateAfter(update) == IF first_update /\ CoversNext(update) THEN FALSE ELSE first_update

\* the second test of the receive loop: the update is skipped
Skipped(update) == ~FirstUpdateAfter(update) /\ update.U # last_update_id + 1

\* the finally block of an iteration: db_task.cancel() on a local that is
\* bound only once a connection has been established, then asyncio.sleep(3)
FinallyBlock ==
    IF db_task = "unbound"
    THEN /\ book_pc' = "terminated"
         /\ book_cause' = "UnboundLocalError"
         /\ db_task' = db_task
    ELSE /\ book_pc' = "waiting"
         /\ book_cause' = book_cause
         /\ db_task' = "cancelled"

\* initialize finds the cryptocurrency and creates the empty order book
Initialize ==
    /\ book_pc = "initialize"
    /\ book_pc' = "fetch"
    /\ order_book' = [snapshot |-> 0, updates |-> <<>>, partial |-> <<>>]
    /\ UNCHANGED <<pipelineVars, procVars, book_cause, last_update_id, first_update, db_task,
                   received, fetches>>

\* initialize does not find the cryptocurrency
InitializeFails ==
    /\ book_pc = "initialize"
    /\ book_pc' = "terminated"
    /\ book_cause' = "ValueError"
    /\ UNCHANGED <<pipelineVars, procVars, last_update_id, first_update, db_task, order_book,
                   received, fetches>>

\* fetch_depth_snapshot returns a snapshot with lastUpdateId = id
FetchSnapshot(id) ==
    /\ book_pc = "fetch"
    /\ fetches < MaxFetches
    /\ fetches' = fetches + 1
    /\ last_update_id' = id
    /\ order_book' = [snapshot |-> id, updates |-> <<>>, partial |-> <<>>]
    /\ received' = <<>>
    /\ book_pc' = "connect"
    /\ UNCHANGED <<pipelineVars, procVars, book_cause, first_update, db_task>>

\* fetch_depth_snapshot returns None: the error is logged and asyncio.sleep(5)
\* is awaited
FetchSnapshotFails ==
    /\ book_pc = "fetch"
    /\ fetches < MaxFetches
    /\ fetches' = fetches + 1
    /\ book_pc' = "sleep5"
    /\ UNCHANGED <<pipelineVars, procVars, book_cause, last_update_id, first_update, db_task,
                   order_book, received>>

\* the sleep after a failed fetch is over: continue, and so the finally block
ContinueAfterSleep ==
    /\ book_pc = "sleep5"
    /\ FinallyBlock
    /\ UNCHANGED <<pipelineVars, procVars, last_update_id, first_update, order_book, received,
                   fetches>>

\* websockets.connect succeeds
ConnectStream ==
    /\ book_pc = "connect"
    /\ first_update' = TRUE
    /\ db_task' = "running"
    /\ book_pc' = "recv"
    /\ UNCHANGED <<pipelineVars, procVars, book_cause, last_update_id, order_book, received,
                   fetches>>

\* websockets.connect raises: no connection to close, the finally block
ConnectStreamFails ==
    /\ book_pc = "connect"
    /\ FinallyBlock
    /\ UNCHANGED <<pipelineVars, procVars, last_update_id, first_update, order_book, received,
                   fetches>>

\* one round of the receive loop on a well-formed update
HandleUpdate(update) ==
    /\ first_update' = FirstUpdateAfter(update)
    /\ IF Skipped(update)
          THEN UNCHANGED <<order_book, last_update_id>>
          ELSE /\ order_book' = apply_update(order_book, update)
               /\ last_update_id' = update.u
    /\ received' = Append(received, update)

ReceiveUpdate(update) ==
    /\ book_pc = "recv"
    /\ Len(received) < MaxReceived
    /\ HandleUpdate(update)
    /\ UNCHANGED <<pipelineVars, procVars, book_pc, book_cause, db_task, fetches>>

\* apply_update raises on an update that is not skipped: last_update_id stays,
\* the exception leaves the body of async with and the connection's close is
\* awaited
ApplyUpdateRaises(update, written) ==
    /\ book_pc = "recv"
    /\ Len(received) < MaxReceived
    /\ ~Skipped(update)
    /\ first_update' = FirstUpdateAfter(update)
    /\ order_book' = apply_update_raises(order_book, update, written)
    /\ book_pc' = "closing"
    /\ UNCHANGED <<pipelineVars, procVars, book_cause, db_task, last_update_id, received,
                   fetches>>

\* the statistics computed after an applied update raise (lines 147-173): the
\* connection's close is awaited
ReceiveUpdateRaises(update) ==
    /\ book_pc = "recv"
    /\ Len(received) < MaxReceived
    /\ ~Skipped(update)
    /\ HandleUpdate(update)
    /\ book_pc' = "closing"
    /\ UNCHANGED <<pipelineVars, procVars, book_cause, db_task, fetches>>

\* recv returns a frame that is not JSON or has no update ids: the connection's
\* close is awaited
ReceiveMalformedUpdate ==
    /\ book_pc = "recv"
    /\ book_pc' = "closing"
    /\ UNCHANGED <<pipelineVars, procVars, book_cause, db_task, last_update_id, first_update,
                   order_book, received, fetches>>

\* recv raises websockets.ConnectionClosed: the close of async with is awaited
ConnectionClosed ==
    /\ book_pc = "recv"
    /\ book_pc' = "closing"
    /\ UNCHANGED <<pipelineVars, procVars, book_cause, db_task, last_update_id, first_update,
                   order_book, received, fetches>>

\* the close of the connection is over: the except clause and the finally block
StreamClosed ==
    /\ book_pc = "closing"
    /\ FinallyBlock
    /\ UNCHANGED <<pipelineVars, procVars, last_update_id, first_update, order_book, received,
                   fetches>>

\* the wait of the finally block is over: next iteration
NextIteration ==
    /\ book_pc = "waiting"
    /\ book_pc' = "fetch"
    /\ UNCHANGED <<pipelineVars, procVars, book_cause, last_update_id, first_update, db_task,
                   order_book, received, fetches>>

NextOrderBook ==
    \/ Initialize
    \/ InitializeFails
    \/ \E id \in UpdateIds : FetchSnapshot(id)
    \/ FetchSnapshotFails
    \/ ContinueAfterSleep
    \/ ConnectStream
    \/ ConnectStreamFails
    \/ \E update \in DepthUpdates : ReceiveUpdate(update)
    \/ \E update \in DepthUpdates : \E written \in BOOLEAN : ApplyUpdateRaises(update, written)
    \/ \E update \in DepthUpdates : ReceiveUpdateRaises(update)
    \/ ReceiveMalformedUpdate
    \/ ConnectionClosed
    \/ StreamClosed
    \/ NextIteration

InitOrderBook == Init /\ exchange = "binance"
SpecOrderBook == InitOrderBook /\ [][NextOrderBook]_vars

\* the updates applied to the order book since the snapshot was loaded
AppliedUpdates == {order_book.updates[i] : i \in 1..Len(order_book.updates)}

(***************************************************************************)
(* C34: once the snapshot with lastUpdateId = L is loaded, an update whose *)
(* final id u is <= L is not applied to the order book and does not move   *)
(* last_update_id backwards (below L).                                     *)
(***************************************************************************)
C34_StaleUpdateNeverApplied ==
    /\ \A update \in AppliedUpdates : update.u > order_book.snapshot
    /\ book_pc = "recv" => last_update_id >= order_book.snapshot

\* what does hold: once first_update is False, only the update that starts
\* at last_update_id + 1 is applied
C34_AfterSyncOnlyNextApplied ==
    [][\A update \in DepthUpdates :
          (book_pc = "recv" /\ ~first_update /\ received' = Append(received, update)
             /\ order_book' # order_book)
          => (update.U = last_update_id + 1 /\ last_update_id' >= last_update_id)]_vars

\* the ranges of the updates received since the snapshot are contiguous
Contiguous(updates) == \A i \in 2..Len(updates) : updates[i].U = updates[i - 1].u + 1

\* the update covers the id that follows the snapshot's lastUpdateId
CoversSnapshot(update) ==
    update.U <= order_book.snapshot + 1 /\ update.u >= order_book.snapshot + 1

\* the position in received of the first update that covers the snapshot, 0 if none
FirstCovering ==
    LET covering == {i \in 1..Len(received) : CoversSnapshot(received[i])}
    IN  IF covering = {} THEN 0 ELSE CHOOSE i \in covering : \A j \in covering : i <= j

(***************************************************************************)
(* C35: if the updates delivered after the snapshot with lastUpdateId = L  *)
(* have contiguous id ranges and the first one that covers L + 1 has       *)
(* U <= L + 1 <= u, then that update and every later one is applied.       *)
(***************************************************************************)
C35_ContiguousStreamApplied ==
    (Contiguous(received) /\ FirstCovering > 0)
    => \A i \in FirstCovering..Len(received) : received[i] \in AppliedUpdates

\* what does hold: a contiguous stream whose first update starts exactly at
\* L + 1 is applied whole, in order
C35_StreamFromNextIdApplied ==
    (Contiguous(received) /\ Len(received) > 0
       /\ received[1].U = order_book.snapshot + 1)
    => order_book.updates = received

(***************************************************************************)
(* C36: manage_order_book never terminates because of a failed snapshot    *)
(* fetch or a closed connection: after either one, in any iteration        *)
(* including the first, it waits and then starts a new iteration.          *)
(***************************************************************************)
C36_FailureLeadsToNextIteration ==
    [][/\ (book_pc = "fetch" /\ fetches' = fetches + 1 /\ book_pc' # "connect")
             => book_pc' = "sleep5"
       /\ (book_pc = "recv" /\ book_pc' # "recv") => book_pc' = "closing"
       /\ (book_pc \in {"sleep5", "closing"} /\ book_pc' # book_pc)
             => book_pc' = "waiting"]_vars

\* what does hold: the manager terminates on a failure only while db_task
\* has never been bound, that is, before the first connection
C36_TerminatesOnlyBeforeFirstConnection ==
    book_cause = "UnboundLocalError" => (db_task = "unbound" /\ book_pc = "terminated")

\* and a wait is always followed by a new iteration
C36_WaitLeadsToFetch ==
    [][book_pc = "waiting" => book_pc' \in {"waiting", "fetch"}]_vars

----------------------------------------------------------------------------
(***************************************************************************)
(* The archiver (data_processing/trading_data_processing.py).  A time is   *)
(* in seconds since an epoch that is the start of an hour; a reading of    *)
(* the clock is the pair <<seconds, microsecond>>.  A document is          *)
(* [id, symbol, source, timestamp], its id the _id MongoDB gave it and its *)
(* timestamp the start of a window, a whole second.                        *)
(***************************************************************************)
MaxDocuments == 2

SecondsPerMinute == 60
SecondsPerHour == 3600
CutoffHours == 24

\* datetime.minute and datetime.second of a reading of the clock
minute(t) == (t[1] % SecondsPerHour) \div SecondsPerMinute
second(t) == t[1] % SecondsPerMinute

\* t.replace(minute=0, second=0, microsecond=0) of a time in seconds
HourStart(t) == t - (t % SecondsPerHour)

\* the current time, moved to the start of the next hour unless its minute and
\* its second are 0; its microsecond is not looked at
RoundedCurrentTime(t) ==
    IF minute(t) > 0 \/ second(t) > 0 THEN <<HourStart(t[1] + SecondsPerHour), 0>> ELSE t

\* a reading of the clock minus timedelta(hours=h)
HoursBefore(t, h) == <<t[1] - h * SecondsPerHour, t[2]>>

\* cutoff_time of get_documents_older_than_24h
CutoffTime(t) == HoursBefore(RoundedCurrentTime(t), CutoffHours)

\* "$lt": the timestamp of a document is before a time with microseconds
Earlier(timestamp, t) == timestamp < t[1] \/ (timestamp = t[1] /\ t[2] > 0)

\* the documents of a set in the order find returns them, that of insertion
RECURSIVE InInsertionOrder(_)
InInsertionOrder(docs) ==
    IF docs = {} THEN <<>>
    ELSE LET first == CHOOSE d \in docs : \A e \in docs : d.id <= e.id
         IN  <<first>> \o InInsertionOrder(docs \ {first})

get_documents_older_than_24h(stored, t) ==
    InInsertionOrder({doc \in stored : Earlier(doc.timestamp, CutoffTime(t))})

\* the key of a document's hour group, formatted as symbol_source_hour
GroupKey(doc) ==
    doc.symbol \o "_" \o doc.source \o "_" \o ToString(HourStart(doc.timestamp))

\* one round of the loop of group_by_hour
AddToGroups(groups, doc) ==
    IF \E i \in 1..Len(groups) : groups[i].key = GroupKey(doc)
    THEN LET i == CHOOSE j \in 1..Len(groups) : groups[j].key = GroupKey(doc)
         IN  [groups EXCEPT ![i].documents = Append(@, doc),
                            ![i].document_ids = Append(@, doc.id)]
    ELSE Append(groups, [key |-> GroupKey(doc),
                         symbol |-> doc.symbol,
                         source |-> doc.source,
                         start_time |-> HourStart(doc.timestamp),
                         end_time |-> HourStart(doc.timestamp) + SecondsPerHour,
                         documents |-> <<doc>>,
                         document_ids |-> <<doc.id>>])

RECURSIVE GroupFrom(_, _)
GroupFrom(docs, groups) ==
    IF docs = <<>> THEN groups ELSE GroupFrom(Tail(docs), AddToGroups(groups, Head(docs)))

\* hourly_groups, in the order the keys were first seen
group_by_hour(docs) == GroupFrom(docs, <<>>)

\* the key of the S3 object of a group
S3Key(group) == "data/" \o group.symbol \o "/" \o group.key \o ".json"

\* the _id values of a list
IdSet(ids) == {ids[i] : i \in 1..Len(ids)}

\* verify_deletion at time t: no document older than t - 24 h remains
verify_deletion(stored, t) ==
    {doc \in stored : Earlier(doc.timestamp, HoursBefore(t, CutoffHours))} = {}

\* the group the loop of process_upload_and_cleanup is at
GroupIndex == Len(bucket) + Len(failed_uploads) + 1

\* the writers of the collection: a second of an hour of a pair of an exchange
DocumentTimes ==
    {h * SecondsPerHour + m * SecondsPerMinute : h \in {0, 1}, m \in {0, 45}}
\* the clock of a run: a day after a document time, half a second later, or a
\* second later
ClockTimes ==
    {<<CutoffHours * SecondsPerHour + t + offset[1], offset[2]>> :
        t \in DocumentTimes, offset \in {<<0, 0>>, <<0, 500000>>, <<1, 0>>}}

\* a pipeline inserts a statistics document
InsertDocument(symbol, source, timestamp) ==
    /\ inserted < MaxDocuments
    /\ inserted' = inserted + 1
    /\ mongo_collection' = mongo_collection \cup
           {[id |-> inserted + 1, symbol |-> symbol, source |-> source,
             timestamp |-> timestamp]}
    /\ UNCHANGED <<pipelineVars, bookVars, proc_pc, now, fetched_documents, hourly_groups,
                   failed_uploads, bucket, deleted, all_deleted>>

\* the run fetches the old documents at time t and groups them; with
\* nothing to do it returns
FetchAndGroup(t) ==
    /\ proc_pc = "start"
    /\ now' = t
    /\ fetched_documents' = get_documents_older_than_24h(mongo_collection, t)
    /\ IF fetched_documents' = <<>>
          THEN /\ proc_pc' = "done"
               /\ UNCHANGED hourly_groups
          ELSE /\ proc_pc' = "upload"
               /\ hourly_groups' = group_by_hour(fetched_documents')
    /\ UNCHANGED <<pipelineVars, bookVars, mongo_collection, inserted, failed_uploads, bucket,
                   deleted, all_deleted>>

\* find_many raises: the run ends in its exception handler
FetchRaises(t) ==
    /\ proc_pc = "start"
    /\ now' = t
    /\ proc_pc' = "done"
    /\ UNCHANGED <<pipelineVars, bookVars, mongo_collection, inserted, fetched_documents,
                   hourly_groups, failed_uploads, bucket, deleted, all_deleted>>

\* the upload of the next group succeeds and its documents are deleted
UploadGroup ==
    /\ proc_pc = "upload"
    /\ GroupIndex <= Len(hourly_groups)
    /\ LET group == hourly_groups[GroupIndex]
           gone == {doc \in mongo_collection : doc.id \in IdSet(group.document_ids)}
       IN  /\ bucket' = Append(bucket, [key |-> S3Key(group), group |-> group.key,
                                         documents |-> group.documents])
           /\ mongo_collection' = mongo_collection \ gone
           /\ deleted' = deleted \cup {doc.id : doc \in gone}
    /\ UNCHANGED <<pipelineVars, bookVars, proc_pc, inserted, now, fetched_documents,
                   hourly_groups, failed_uploads, all_deleted>>

\* the upload succeeds and delete_many raises: nothing is deleted
UploadGroupDeleteFails ==
    /\ proc_pc = "upload"
    /\ GroupIndex <= Len(hourly_groups)
    /\ LET group == hourly_groups[GroupIndex]
       IN  bucket' = Append(bucket, [key |-> S3Key(group), group |-> group.key,
                                     documents |-> group.documents])
    /\ UNCHANGED <<pipelineVars, bookVars, proc_pc, mongo_collection, inserted, now,
                   fetched_documents, hourly_groups, failed_uploads, deleted, all_deleted>>

UploadGroupFails_StillDeletes ==
    /\ proc_pc = "upload"
    /\ GroupIndex <= Len(hourly_groups)
    /\ LET group == hourly_groups[GroupIndex]
           gone == {doc \in mongo_collection : doc.id \in IdSet(group.document_ids)}
       IN  /\ failed_uploads' = Append(failed_uploads, group.key)
           /\ mongo_collection' = mongo_collection \ gone
           /\ deleted' = deleted \cup {doc.id : doc \in gone}
    /\ UNCHANGED <<pipelineVars, bookVars, proc_pc, inserted, now, fetched_documents,
                   hourly_groups, bucket, all_deleted>>

\* the upload of the next group fails: its key is noted, the loop goes on
UploadGroupFails ==
    /\ proc_pc = "upload"
    /\ GroupIndex <= Len(hourly_groups)
    /\ failed_uploads' = Append(failed_uploads, hourly_groups[GroupIndex].key)
    /\ UNCHANGED <<pipelineVars, bookVars, proc_pc, mongo_collection, inserted, now,
                   fetched_documents, hourly_groups, bucket, deleted, all_deleted>>

\* after the last group: verify_deletion reads the clock again, at a time t
\* that is not before the first reading, then the summary and the end of the run
VerifyAndFinish(t) ==
    /\ proc_pc = "upload"
    /\ GroupIndex > Len(hourly_groups)
    /\ t[1] > now[1] \/ (t[1] = now[1] /\ t[2] >= now[2])
    /\ all_deleted' = verify_deletion(mongo_collection, t)
    /\ proc_pc' = "done"
    /\ UNCHANGED <<pipelineVars, bookVars, mongo_collection, inserted, now, fetched_documents,
                   hourly_groups, failed_uploads, bucket, deleted>>

\* the find_many of verify_deletion raises: the run ends in its exception
\* handler, all_deleted is not assigned
VerifyRaises ==
    /\ proc_pc = "upload"
    /\ GroupIndex > Len(hourly_groups)
    /\ proc_pc' = "done"
    /\ UNCHANGED <<pipelineVars, bookVars, mongo_collection, inserted, now, fetched_documents,
                   hourly_groups, failed_uploads, bucket, deleted, all_deleted>>

\* The archiver: documents of both Binance pairs and of one KuCoin pair arrive
\* while it runs
NextProcessor ==
    \/ \E source \in Exchanges :
          \E symbol \in IF source = "binance" THEN PairSet(source) ELSE {Pairs(source)[1]} :
              \E t \in DocumentTimes : InsertDocument(symbol, source, t)
    \/ \E t \in ClockTimes : FetchAndGroup(t)
    \/ \E t \in ClockTimes : FetchRaises(t)
    \/ UploadGroup
    \/ UploadGroupDeleteFails
    \/ UploadGroupFails
    \/ \E t \in ClockTimes : VerifyAndFinish(t)
    \/ VerifyRaises

InitArchive == Init /\ exchange = "binance"
SpecProcessor == InitArchive /\ [][NextProcessor]_vars

\* the groups that hold the document with this _id
GroupsOf(id) == {i \in 1..Len(hourly_groups) : id \in IdSet(hourly_groups[i].document_ids)}

\* the upload of the group with this key succeeded
Uploaded(key) == \E i \in 1..Len(bucket) : bucket[i].group = key

(***************************************************************************)
(* C37: the documents of an hour group are deleted only after the upload   *)
(* of the group succeeded; a document whose group upload failed is never   *)
(* deleted; a failed upload does not stop the processing of the other      *)
(* groups; every fetched document belongs to exactly one hour group, keyed *)
(* by (symbol, source, hour).                                              *)
(***************************************************************************)
C37_DeletedOnlyAfterUpload ==
    /\ \A id \in deleted : \E i \in GroupsOf(id) : Uploaded(hourly_groups[i].key)
    /\ \A i \in 1..Len(hourly_groups) :
          hourly_groups[i].key \in IdSet(failed_uploads)
          => \A k \in 1..Len(hourly_groups[i].documents) :
                /\ hourly_groups[i].documents[k].id \notin deleted
                /\ hourly_groups[i].documents[k] \in mongo_collection
    /\ (proc_pc = "done" /\ hourly_groups # <<>>)
          => Len(bucket) + Len(failed_uploads) = Len(hourly_groups)
    /\ \A k \in 1..Len(fetched_documents) :
          LET doc == fetched_documents[k]
          IN  /\ Cardinality(GroupsOf(doc.id)) = 1
              /\ \A i \in GroupsOf(doc.id) :
                    /\ hourly_groups[i].symbol = doc.symbol
                    /\ hourly_groups[i].source = doc.source
                    /\ hourly_groups[i].start_time = HourStart(doc.timestamp)
                    /\ \E n \in 1..Len(hourly_groups[i].documents) :
                          hourly_groups[i].documents[n] = doc
    /\ \A i, j \in 1..Len(hourly_groups) :
          (/\ hourly_groups[i].symbol = hourly_groups[j].symbol
           /\ hourly_groups[i].source = hourly_groups[j].source
           /\ hourly_groups[i].start_time = hourly_groups[j].start_time) => i = j

\* a run whose first group failed to upload and whose second group was
\* uploaded and deleted
C37_Witness ==
    /\ proc_pc = "done"
    /\ Len(hourly_groups) = 2
    /\ failed_uploads = <<hourly_groups[1].key>>
    /\ Len(bucket) = 1
    /\ bucket[1].group = hourly_groups[2].key
    /\ deleted = IdSet(hourly_groups[2].document_ids)
    /\ hourly_groups[1].documents[1] \in mongo_collection

(***************************************************************************)
(* C38: every document get_documents_older_than_24h returns has a          *)
(* timestamp strictly earlier than the current time minus 24 hours, for    *)
(* every current time.                                                     *)
(***************************************************************************)
C38_OnlyOlderThan24h ==
    \A k \in 1..Len(fetched_documents) :
        Earlier(fetched_documents[k].timestamp, HoursBefore(now, CutoffHours))

\* what does hold: a returned document is earlier than the current time
\* minus 23 hours, and earlier than minus 24 hours when the run starts on
\* the hour; a deleted document was returned
C38_YoungerByLessThanAnHour ==
    /\ \A k \in 1..Len(fetched_documents) :
          /\ Earlier(fetched_documents[k].timestamp, HoursBefore(now, CutoffHours - 1))
          /\ (minute(now) = 0 /\ second(now) = 0)
                => Earlier(fetched_documents[k].timestamp, HoursBefore(now, CutoffHours))
    /\ \A id \in deleted : \E k \in 1..Len(fetched_documents) : fetched_documents[k].id = id

====
